---- MODULE Spec2Model ----
(***************************************************************************)
(* NURBS surface-evaluation kernel (nurbs-core): Cox-de Boor basis         *)
(* evaluation, rational surface evaluation, finite-difference differential *)
(* geometry and the C boundary.                                            *)
(*                                                                         *)
(* Numbers.  An f64 is modelled as a pair <<n, d>>:                        *)
(*   d > 0          the rational n/d in lowest terms (arithmetic is exact, *)
(*                  rounding is not modelled);                             *)
(*   <<1, 0>>       +infinity;   <<-1, 0>>  -infinity;   <<0, 0>>  NaN.    *)
(* The IEEE rules for the non-finite values are kept (x/0, 0/0, inf-inf,   *)
(* 0*inf, comparisons with NaN are false); the sign of zero is not kept.   *)
(* Sequences are indexed from 0 through At, as the slices of the source.   *)
(***************************************************************************)
EXTENDS Integers, Sequences, FiniteSets, TLC

\* ------------------------------------------------------------------ f64 --
NaN  == <<0, 0>>
PInf == <<1, 0>>
NInf == <<-1, 0>>

Abs(i) == IF i < 0 THEN -i ELSE i

Sgn(i) == IF i < 0 THEN -1 ELSE IF i > 0 THEN 1 ELSE 0

RECURSIVE GCD(_, _)
GCD(a, b) == IF b = 0 THEN a ELSE GCD(b, a % b)

\* the rational n/d, d # 0, in lowest terms with a positive denominator
Rat(n, d) ==
    LET g == GCD(Abs(n), Abs(d))
        s == Sgn(d)
    IN  <<(s * n) \div g, (s * d) \div g>>

F(i) == <<i, 1>>

IsNaN(x) == x = NaN

IsInf(x) == x = PInf \/ x = NInf

IsFinite(x) == x[2] > 0

IsZero(x) == x[2] > 0 /\ x[1] = 0

FSign(x) == Sgn(x[1])

FNeg(x) == <<-x[1], x[2]>>

FAdd(x, y) ==
    IF IsNaN(x) \/ IsNaN(y) THEN NaN
    ELSE IF IsInf(x) THEN (IF IsInf(y) /\ y # x THEN NaN ELSE x)
    ELSE IF IsInf(y) THEN y
    ELSE LET g == GCD(x[2], y[2])
         IN  Rat(x[1] * (y[2] \div g) + y[1] * (x[2] \div g), (x[2] \div g) * y[2])

FSub(x, y) == FAdd(x, FNeg(y))

FMul(x, y) ==
    IF IsNaN(x) \/ IsNaN(y) THEN NaN
    ELSE IF IsInf(x) \/ IsInf(y)
         THEN (IF IsZero(x) \/ IsZero(y) THEN NaN ELSE <<FSign(x) * FSign(y), 0>>)
    ELSE LET g1 == GCD(Abs(x[1]), y[2])
             g2 == GCD(Abs(y[1]), x[2])
         IN  IF x[1] = 0 \/ y[1] = 0 THEN F(0)
             ELSE <<(x[1] \div g1) * (y[1] \div g2), (x[2] \div g2) * (y[2] \div g1)>>

FDiv(x, y) ==
    IF IsNaN(x) \/ IsNaN(y) THEN NaN
    ELSE IF IsInf(x) THEN (IF IsInf(y) THEN NaN
                           ELSE <<FSign(x) * (IF FSign(y) < 0 THEN -1 ELSE 1), 0>>)
    ELSE IF IsInf(y) THEN F(0)
    ELSE IF IsZero(y) THEN (IF IsZero(x) THEN NaN ELSE <<FSign(x), 0>>)
    ELSE FMul(x, <<Sgn(y[1]) * y[2], Abs(y[1])>>)

\* x < y; false when either side is NaN
FLt(x, y) ==
    IF IsNaN(x) \/ IsNaN(y) THEN FALSE
    ELSE IF IsFinite(x) /\ IsFinite(y)
         THEN LET g == GCD(x[2], y[2])
              IN  x[1] * (y[2] \div g) < y[1] * (x[2] \div g)
    ELSE x # y /\ (x = NInf \/ y = PInf)

FGt(x, y) == FLt(y, x)

FLe(x, y) == ~IsNaN(x) /\ ~IsNaN(y) /\ ~FLt(y, x)

FGe(x, y) == FLe(y, x)

\* f64::max and f64::min: a NaN operand is ignored
FMax(x, y) == IF IsNaN(x) THEN y ELSE IF IsNaN(y) THEN x ELSE IF FLt(x, y) THEN y ELSE x

FMin(x, y) == IF IsNaN(x) THEN y ELSE IF IsNaN(y) THEN x ELSE IF FLt(y, x) THEN y ELSE x

FAbs(x) == <<Abs(x[1]), x[2]>>

\* Resolution of the modelled square root: sqrt rounds down to a multiple
\* of 1/SqrtScale (f64 rounds to 53 bits); squares of such multiples have
\* exact roots.
SqrtBits == 6

SqrtScale == 2 ^ SqrtBits

\* the largest r in lo..hi with r * r <= k (lo * lo <= k)
RECURSIVE ISqrtIn(_, _, _)
ISqrtIn(k, lo, hi) ==
    IF lo >= hi THEN lo
    ELSE LET mid == (lo + hi + 1) \div 2
         IN  IF mid * mid <= k THEN ISqrtIn(k, mid, hi) ELSE ISqrtIn(k, lo, mid - 1)

ISqrt(k) == ISqrtIn(k, 0, 46340)

\* floor(2^k * (q + r / d)) for 0 <= r < d, by long division
RECURSIVE ScaledFloor(_, _, _, _)
ScaledFloor(q, r, d, k) ==
    IF k = 0 THEN q ELSE ScaledFloor(2 * q + (2 * r) \div d, (2 * r) % d, d, k - 1)

\* k is the square of an integer
IsSquare(k) == ISqrt(k) * ISqrt(k) = k

\* f64::sqrt: the root itself where the argument is the square of a number
\* (sqrt is correctly rounded), else the root rounded down to the grid
FSqrt(x) ==
    IF IsNaN(x) \/ FSign(x) < 0 THEN NaN
    ELSE IF IsInf(x) THEN PInf
    ELSE IF IsSquare(x[1]) /\ IsSquare(x[2]) THEN <<ISqrt(x[1]), ISqrt(x[2])>>
    ELSE Rat(ISqrt(ScaledFloor(x[1] \div x[2], x[1] % x[2], x[2], 2 * SqrtBits)), SqrtScale)

At(s, i) == s[i + 1]

Zeros(n) == [i \in 1..n |-> F(0)]

RECURSIVE FSum(_)
FSum(s) == IF s = <<>> THEN F(0) ELSE FAdd(FSum(SubSeq(s, 1, Len(s) - 1)), s[Len(s)])

\* ---------------------------------------------------------------- usize --
\* Width of usize in the model (64 in the source's targets).
UsizeBits == 8

UsizeModulus == 2 ^ UsizeBits

USIZE_MAX == UsizeModulus - 1

\* Outcome of usize arithmetic that panicked ("attempt to add/subtract with
\* overflow"); every usize is >= 0.
UPanic == -1

\* a + b and a - b on usize.  With overflow checks (debug profile) an
\* overflow panics, without them (release profile) the result wraps.
UAdd(a, b, chk) ==
    IF a = UPanic \/ b = UPanic THEN UPanic
    ELSE IF a + b < UsizeModulus THEN a + b
    ELSE IF chk THEN UPanic ELSE (a + b) % UsizeModulus

USub(a, b, chk) ==
    IF a = UPanic \/ b = UPanic THEN UPanic
    ELSE IF a >= b THEN a - b
    ELSE IF chk THEN UPanic ELSE a - b + UsizeModulus

\* Outcome of a call: a value, or a panic that unwinds out of the call.
Res(v) == [ok |-> TRUE, val |-> v]

Panicked == [ok |-> FALSE]

\* ---------------------------------------------------------------- basis --
\* SpanStep with low = mid + 1 in the else branch
SpanStep_LowPastMid(low, high, t, knots) ==
    LET mid == (low + high) \div 2
    IN  IF FLt(t, At(knots, mid)) THEN <<low, mid>> ELSE <<mid + 1, high>>

\* SpanStep comparing t <= knots[mid]
SpanStep_Le(low, high, t, knots) ==
    LET mid == (low + high) \div 2
    IN  IF FLe(t, At(knots, mid)) THEN <<low, mid>> ELSE <<mid, high>>

\* One iteration of the binary search of find_span (basis.rs:50-55).
SpanStep(low, high, t, knots) ==
    LET mid == (low + high) \div 2
    IN  IF FLt(t, At(knots, mid)) THEN <<low, mid>> ELSE <<mid, high>>

RECURSIVE SpanLoop(_, _, _, _)
SpanLoop(low, high, t, knots) ==
    IF high - low > 1
    THEN LET s == SpanStep(low, high, t, knots)
         IN  SpanLoop(s[1], s[2], t, knots)
    ELSE low

\* The part of find_span before the loop: n, the two clamps.  Gives
\* [ret |-> span] when it returns at once (UPanic when it panics) and
\* [low, high] when the search starts.
FindSpanEntry(t, degree, knots, chk) ==
    LET n == USub(USub(Len(knots), degree, chk), 1, chk)
    IN  IF n = UPanic \/ n >= Len(knots) THEN [ret |-> UPanic]
        ELSE IF FGe(t, At(knots, n)) THEN [ret |-> USub(n, 1, chk)]
        ELSE IF degree >= Len(knots) THEN [ret |-> UPanic]
        ELSE IF FLe(t, At(knots, degree)) THEN [ret |-> degree]
        ELSE [low |-> degree, high |-> n]

find_span(t, degree, knots, chk) ==
    LET e == FindSpanEntry(t, degree, knots, chk)
    IN  IF "ret" \in DOMAIN e THEN e.ret
        ELSE SpanLoop(e.low, e.high, t, knots)

\* basis_funs indexes knots[span + 1 - j] and knots[span + j], j in
\* 1..degree; an index out of the slice panics, and so does (or wraps to
\* such an index) span + 1 - j below zero.
basis_funs_panics(span, degree, knots, output) ==
    \/ span = UPanic
    \/ Len(output) = 0
    \/ degree >= 1 /\ (span + degree >= Len(knots) \/ span + 1 < degree
                       \/ degree >= Len(output))

\* basis_funs with saved = left[j] * temp
basis_funs_SavedLeftJ(span, t, degree, knots, output) ==
    LET left(j)  == FSub(t, At(knots, span + 1 - j))
        right(j) == FSub(At(knots, span + j), t)
        RECURSIVE inner(_, _, _, _)
        inner(out, saved, r, j) ==
            IF r >= j THEN [out EXCEPT ![j + 1] = saved]
            ELSE LET temp == FDiv(At(out, r), FAdd(right(r + 1), left(j - r)))
                 IN  inner([out EXCEPT ![r + 1] = FAdd(saved, FMul(right(r + 1), temp))],
                           FMul(left(j), temp), r + 1, j)
        RECURSIVE outer(_, _)
        outer(out, j) ==
            IF j > degree THEN out ELSE outer(inner(out, F(0), 0, j), j + 1)
    IN  outer([output EXCEPT ![1] = F(1)], 1)

\* basis_funs with left[j] = knots[span + 1 - j] - t
basis_funs_LeftSwapped(span, t, degree, knots, output) ==
    LET left(j)  == FSub(At(knots, span + 1 - j), t)
        right(j) == FSub(At(knots, span + j), t)
        RECURSIVE inner(_, _, _, _)
        inner(out, saved, r, j) ==
            IF r >= j THEN [out EXCEPT ![j + 1] = saved]
            ELSE LET temp == FDiv(At(out, r), FAdd(right(r + 1), left(j - r)))
                 IN  inner([out EXCEPT ![r + 1] = FAdd(saved, FMul(right(r + 1), temp))],
                           FMul(left(j - r), temp), r + 1, j)
        RECURSIVE outer(_, _)
        outer(out, j) ==
            IF j > degree THEN out ELSE outer(inner(out, F(0), 0, j), j + 1)
    IN  outer([output EXCEPT ![1] = F(1)], 1)

\* Cox-de Boor recurrence; left[j] and right[j] are written once, at the
\* top of iteration j, and are functions of j.
basis_funs(span, t, degree, knots, output) ==
    LET left(j)  == FSub(t, At(knots, span + 1 - j))
        right(j) == FSub(At(knots, span + j), t)
        RECURSIVE inner(_, _, _, _)
        inner(out, saved, r, j) ==
            IF r >= j THEN [out EXCEPT ![j + 1] = saved]
            ELSE LET temp == FDiv(At(out, r), FAdd(right(r + 1), left(j - r)))
                 IN  inner([out EXCEPT ![r + 1] = FAdd(saved, FMul(right(r + 1), temp))],
                           FMul(left(j - r), temp), r + 1, j)
        RECURSIVE outer(_, _)
        outer(out, j) ==
            IF j > degree THEN out ELSE outer(inner(out, F(0), 0, j), j + 1)
    IN  outer([output EXCEPT ![1] = F(1)], 1)

\* The copy loop of evaluate_all (basis.rs:23-28), from index i on.
RECURSIVE Scatter(_, _, _, _, _, _, _)
Scatter(output, basis, span, degree, n, i, chk) ==
    IF i > degree THEN Res(output)
    ELSE LET idx == UAdd(USub(span, degree, chk), i, chk)
         IN  IF idx = UPanic THEN Panicked
             ELSE Scatter(IF idx < n THEN [output EXCEPT ![idx + 1] = At(basis, i)]
                                     ELSE output,
                          basis, span, degree, n, i + 1, chk)

evaluate_all(t, knots, degree, output, chk) ==
    LET n    == USub(USub(Len(knots), degree, chk), 1, chk)
        blen == UAdd(degree, 1, chk)
        Copy(span) ==
            IF basis_funs_panics(span, degree, knots, Zeros(blen)) THEN Panicked
            ELSE Scatter(Zeros(n), basis_funs(span, t, degree, knots, Zeros(blen)),
                         span, degree, n, 0, chk)
    IN  IF n = UPanic \/ Len(output) # n THEN Panicked
        ELSE IF blen = UPanic THEN Panicked
        ELSE CHOOSE ret \in {Copy(got) : got \in {find_span(t, degree, knots, chk)}} : TRUE

\* ndu[i][j] and a[s][j] of evaluate_derivatives, rows and columns from 0
Cell(table, i, j) == At(At(table, i), j)

\* isize::as usize
AsUsize(i) == i % UsizeModulus

Min(a, b) == IF a <= b THEN a ELSE b

\* row.resize(degree + 1, 0.0)
Resize(row, len) ==
    [i \in 1..len |-> IF i <= Len(row) THEN row[i] ELSE F(0)]

\* evaluate_derivatives, lines 100-121: the table ndu for a span whose
\* knots exist
NduTable(span, t, degree, knots) ==
    LET left(j)  == FSub(t, At(knots, span + 1 - j))
        right(j) == FSub(At(knots, span + j), t)
        RECURSIVE inner(_, _, _, _)
        inner(ndu, saved, r, j) ==
            IF r >= j THEN [ndu EXCEPT ![j + 1][j + 1] = saved]
            ELSE LET Fill(den) ==
                         LET Body(temp) ==
                                 inner([ndu EXCEPT ![j + 1][r + 1] = den,
                                                   ![r + 1][j + 1] =
                                                       FAdd(saved, FMul(right(r + 1), temp))],
                                       FMul(left(j - r), temp), r + 1, j)
                         IN  CHOOSE ret \in {Body(got) :
                                        got \in {FDiv(Cell(ndu, r, j - 1), den)}} : TRUE
                 IN  CHOOSE ret \in {Fill(got) :
                                got \in {FAdd(right(r + 1), left(j - r))}} : TRUE
        RECURSIVE outer(_, _)
        outer(ndu, j) ==
            IF j > degree THEN ndu ELSE outer(inner(ndu, F(0), 0, j), j + 1)
    IN  outer([i \in 1..(degree + 1) |->
                 [j \in 1..(degree + 1) |-> IF i = 1 /\ j = 1 THEN F(1) ELSE F(0)]], 1)

\* the loop over j1..j2 of lines 153-156; rk is the signed r - k, and the
\* index rk as usize + j is a usize addition
RECURSIVE DerivMiddle(_, _, _, _, _, _, _, _)
DerivMiddle(ndu, pk, rk, a1, st, j, j2, chk) ==
    IF j >= j2 THEN Res(st)
    ELSE LET Body(idx) ==
                 IF idx = UPanic \/ idx >= Len(ndu) \/ pk + 1 >= Len(ndu) \/ j >= Len(a1)
                 THEN Panicked
                 ELSE LET Put(v) ==
                              DerivMiddle(ndu, pk, rk, a1,
                                  [a2 |-> [st.a2 EXCEPT ![j + 1] = v],
                                   d  |-> FAdd(st.d, FMul(v, Cell(ndu, idx, pk)))],
                                  j + 1, j2, chk)
                      IN  CHOOSE ret \in {Put(got) : got \in
                              {FDiv(FSub(At(a1, j), At(a1, j - 1)),
                                    Cell(ndu, pk + 1, idx))}} : TRUE
         IN  CHOOSE ret \in {Body(got) : got \in {UAdd(AsUsize(rk), j, chk)}} : TRUE

\* lines 136-166 for one r: the loop over k from k on; a is the pair of
\* coefficient rows, s1 the row read (1 or 2 here for the source's 0 or 1),
\* out the output rows
RECURSIVE DerivOrders(_, _, _, _, _, _, _, _, _)
DerivOrders(ndu, degree, r, k, kmax, a, s1, out, chk) ==
    IF k > kmax THEN Res(out)
    ELSE
    LET s2 == 3 - s1
        rk == r - k
        pk == degree - k
        a1 == a[s1]
        Lead(v) == [a2 |-> [a[s2] EXCEPT ![1] = v], d |-> FMul(v, Cell(ndu, rk, pk))]
        head == IF r >= k
                THEN CHOOSE st \in {Lead(got) : got \in
                         {FDiv(At(a1, 0), Cell(ndu, pk + 1, rk))}} : TRUE
                ELSE [a2 |-> a[s2], d |-> F(0)]
        j1 == IF rk >= -1 THEN 1 ELSE AsUsize(-rk)
        j2 == IF r - 1 <= pk THEN k ELSE UAdd(USub(degree, r, chk), 1, chk)
        Trail(st) ==
            IF r <= pk
            THEN LET Put(v) == [a2 |-> [st.a2 EXCEPT ![k + 1] = v],
                                d  |-> FAdd(st.d, FMul(v, Cell(ndu, r, pk)))]
                 IN  CHOOSE ret \in {Put(got) : got \in
                         {FDiv(FNeg(At(a1, k - 1)), Cell(ndu, pk + 1, r))}} : TRUE
            ELSE st
        Rest(mid) ==
            IF ~mid.ok \/ k >= Len(out) THEN Panicked
            ELSE LET Write(fin) ==
                         DerivOrders(ndu, degree, r, k + 1, kmax,
                                     [a EXCEPT ![s2] = fin.a2], s2,
                                     [out EXCEPT ![k + 1][r + 1] = fin.d], chk)
                 IN  CHOOSE ret \in {Write(got) : got \in {Trail(mid.val)}} : TRUE
    IN  IF j2 = UPanic THEN Panicked
        ELSE CHOOSE ret \in {Rest(got) : got \in
                 {DerivMiddle(ndu, pk, rk, a1, head, j1, j2, chk)}} : TRUE

\* lines 130-166 for one r: fresh s1, s2 and a, then the loop over k
DerivRow(ndu, degree, deriv_order, r, out, chk) ==
    DerivOrders(ndu, degree, r, 1, Min(deriv_order, degree),
                <<[j \in 1..(degree + 1) |-> IF j = 1 THEN F(1) ELSE F(0)],
                  Zeros(degree + 1)>>,
                1, out, chk)

\* lines 170-176: the multiplication by the factorials, from order k on
RECURSIVE DerivScale(_, _, _, _, _)
DerivScale(out, degree, k, kmax, r_factorial) ==
    IF k > kmax THEN out
    ELSE DerivScale([out EXCEPT ![k + 1] =
                        [j \in 1..Len(out[k + 1]) |-> FMul(out[k + 1][j], r_factorial)]],
                    degree, k + 1, kmax, FMul(r_factorial, F(degree - k)))

\* -------------------------------------------------------------- surface --
\* isize::MAX
ISIZE_MAX == UsizeModulus \div 2 - 1

RECURSIVE NonZeroProduct(_)
NonZeroProduct(shape) ==
    IF shape = <<>> THEN 1
    ELSE (IF Head(shape) = 0 THEN 1 ELSE Head(shape)) * NonZeroProduct(Tail(shape))

RECURSIVE Product(_)
Product(shape) == IF shape = <<>> THEN 1 ELSE Head(shape) * Product(Tail(shape))

\* An ndarray array is its shape and its elements: control_points.at[<<i, j>>]
\* is the tuple of the inner axis, weights.at[<<i, j>>] a number.
ShapeIndex(u_res, v_res) == (0..(u_res - 1)) \X (0..(v_res - 1))

\* row-major list of the index pairs (i, j), i outer, j inner
IndexSeq(u_res, v_res) ==
    [k \in 1..(u_res * v_res) |-> <<(k - 1) \div v_res, (k - 1) % v_res>>]

\* NURBSSurface::new: the five assertions, then the struct
new(degree_u, degree_v, control_points, weights, knots_u, knots_v, chk) ==
    IF control_points.shape[3] # 3 THEN Panicked
    ELSE IF control_points.shape[1] # weights.shape[1] THEN Panicked
    ELSE IF control_points.shape[2] # weights.shape[2] THEN Panicked
    ELSE IF Len(knots_u) # UAdd(UAdd(control_points.shape[1], degree_u, chk), 1, chk)
         THEN Panicked
    ELSE IF Len(knots_v) # UAdd(UAdd(control_points.shape[2], degree_v, chk), 1, chk)
         THEN Panicked
    ELSE Res([degree_u |-> degree_u, degree_v |-> degree_v,
              control_points |-> control_points, weights |-> weights,
              knots_u |-> knots_u, knots_v |-> knots_v])

\* evaluate without the division by weight_sum
evaluate_NotRational(self, u, v, chk) ==
    LET u_res   == self.control_points.shape[1]
        v_res   == self.control_points.shape[2]
        basis_u == evaluate_all(u, self.knots_u, self.degree_u, Zeros(u_res), chk)
        basis_v == evaluate_all(v, self.knots_v, self.degree_v, Zeros(v_res), chk)
        Point(basis) ==
            IF ~basis[1].ok \/ ~basis[2].ok THEN Panicked
            ELSE
            LET ij == IndexSeq(u_res, v_res)
                bw == [k \in 1..Len(ij) |->
                         FMul(FMul(At(basis[1].val, ij[k][1]), At(basis[2].val, ij[k][2])),
                              self.weights.at[ij[k]])]
            IN  Res(<<FSum([k \in 1..Len(ij) |-> FMul(bw[k], self.control_points.at[ij[k]][1])]),
                      FSum([k \in 1..Len(ij) |-> FMul(bw[k], self.control_points.at[ij[k]][2])]),
                      FSum([k \in 1..Len(ij) |-> FMul(bw[k], self.control_points.at[ij[k]][3])])>>)
    IN  CHOOSE ret \in {Point(got) : got \in {<<basis_u, basis_v>>}} : TRUE

\* NURBSSurface::evaluate
evaluate(self, u, v, chk) ==
    LET u_res   == self.control_points.shape[1]
        v_res   == self.control_points.shape[2]
        basis_u == evaluate_all(u, self.knots_u, self.degree_u, Zeros(u_res), chk)
        basis_v == evaluate_all(v, self.knots_v, self.degree_v, Zeros(v_res), chk)
        Point(basis) ==
            IF ~basis[1].ok \/ ~basis[2].ok THEN Panicked
            ELSE
            LET ij == IndexSeq(u_res, v_res)
                bw == [k \in 1..Len(ij) |->
                         FMul(FMul(At(basis[1].val, ij[k][1]), At(basis[2].val, ij[k][2])),
                              self.weights.at[ij[k]])]
                Accumulate(weight_sum) ==
                    LET rational_basis == [k \in 1..Len(ij) |-> FDiv(bw[k], weight_sum)]
                    IN  <<FSum([k \in 1..Len(ij) |->
                                  FMul(rational_basis[k], self.control_points.at[ij[k]][1])]),
                          FSum([k \in 1..Len(ij) |->
                                  FMul(rational_basis[k], self.control_points.at[ij[k]][2])]),
                          FSum([k \in 1..Len(ij) |->
                                  FMul(rational_basis[k], self.control_points.at[ij[k]][3])])>>
            IN  Res(CHOOSE ret \in {Accumulate(got) : got \in {FSum(bw)}} : TRUE)
    IN  CHOOSE ret \in {Point(got) : got \in {<<basis_u, basis_v>>}} : TRUE

\* the terms basis_u[i] * basis_v[j] * weights[[i, j]] of evaluate's first
\* loop, in the order of the loop
WeightTerms(self, basis_u, basis_v) ==
    LET ij == IndexSeq(self.control_points.shape[1], self.control_points.shape[2])
    IN  [k \in 1..Len(ij) |->
           FMul(FMul(At(basis_u, ij[k][1]), At(basis_v, ij[k][2])), self.weights.at[ij[k]])]

\* the first loop of evaluate with the last column of the net left out
weight_sum_SkipLast(self, u, v, chk) ==
    LET u_res   == self.control_points.shape[1]
        v_res   == self.control_points.shape[2]
        basis_u == evaluate_all(u, self.knots_u, self.degree_u, Zeros(u_res), chk)
        basis_v == evaluate_all(v, self.knots_v, self.degree_v, Zeros(v_res), chk)
        Sum(basis) ==
            IF ~basis[1].ok \/ ~basis[2].ok THEN Panicked
            ELSE LET terms == WeightTerms(self, basis[1].val, basis[2].val)
                 IN  Res(FSum([k \in 1..Len(terms) |->
                                 IF k % v_res = 0 THEN F(0) ELSE terms[k]]))
    IN  CHOOSE ret \in {Sum(got) : got \in {<<basis_u, basis_v>>}} : TRUE

\* weight_sum as evaluate has it after its first loop
weight_sum(self, u, v, chk) ==
    LET u_res   == self.control_points.shape[1]
        v_res   == self.control_points.shape[2]
        basis_u == evaluate_all(u, self.knots_u, self.degree_u, Zeros(u_res), chk)
        basis_v == evaluate_all(v, self.knots_v, self.degree_v, Zeros(v_res), chk)
        Sum(basis) ==
            IF ~basis[1].ok \/ ~basis[2].ok THEN Panicked
            ELSE Res(FSum(WeightTerms(self, basis[1].val, basis[2].val)))
    IN  CHOOSE ret \in {Sum(got) : got \in {<<basis_u, basis_v>>}} : TRUE

\* surface.evaluate at each parameter pair of pts, in order; Panicked as soon
\* as one evaluation panics
RECURSIVE Samples(_, _, _)
Samples(surface, pts, chk) ==
    IF pts = <<>> THEN <<>>
    ELSE <<evaluate(surface, Head(pts)[1], Head(pts)[2], chk)>>
             \o Samples(surface, Tail(pts), chk)

\* evaluate_batch as its caller sees it: the collected Vec, or the panic of
\* one of the closures
evaluate_batch(self, uv_pairs, chk) ==
    LET Collect(points) ==
            IF \E k \in 1..Len(points) : ~points[k].ok THEN Panicked
            ELSE Res([k \in 1..Len(points) |-> points[k].val])
    IN  CHOOSE ret \in {Collect(got) : got \in {Samples(self, uv_pairs, chk)}} : TRUE

\* the parameter with the step 1.0 / samples
GridParam_Count(i, samples_minus_1) == FMul(F(i), FDiv(F(1), F(samples_minus_1 + 1)))

\* the parameter of row or column i of evaluate_grid (surface.rs:104-105,
\* 111, 114): i as f64 * (1.0 / (samples - 1) as f64)
GridParam(i, samples_minus_1) == FMul(F(i), FDiv(F(1), F(samples_minus_1)))

\* evaluate_grid as its caller sees it: the grid, or a panic (of
\* Array3::zeros, of a subtraction, or of one of the closures)
evaluate_grid(self, u_samples, v_samples, chk) ==
    LET um == USub(u_samples, 1, chk)
        vm == USub(v_samples, 1, chk)
        ij == IndexSeq(u_samples, v_samples)
        Grid(points) ==
            IF \E k \in 1..Len(points) : ~points[k].ok THEN Panicked
            ELSE Res([shape |-> <<u_samples, v_samples, 3>>,
                      at |-> [p \in ShapeIndex(u_samples, v_samples) |->
                                points[p[1] * v_samples + p[2] + 1].val]])
    IN  IF NonZeroProduct(<<u_samples, v_samples, 3>>) > ISIZE_MAX THEN Panicked
        ELSE IF um = UPanic \/ vm = UPanic THEN Panicked
        ELSE CHOOSE ret \in {Grid(got) : got \in
                 {Samples(self, [k \in 1..Len(ij) |->
                                   <<GridParam(ij[k][1], um), GridParam(ij[k][2], vm)>>],
                          chk)}} : TRUE

\* control_point: indexing outside the array panics
control_point(self, i, j) ==
    IF <<i, j>> \in DOMAIN self.control_points.at THEN Res(self.control_points.at[<<i, j>>])
    ELSE Panicked

\* weight: indexing outside the array panics
weight(self, i, j) ==
    IF <<i, j>> \in DOMAIN self.weights.at THEN Res(self.weights.at[<<i, j>>])
    ELSE Panicked

\* dimensions
dimensions(self) == <<self.control_points.shape[1], self.control_points.shape[2]>>

\* ------------------------------------------------------ derivatives.rs --
\* Finite-difference steps and tolerances.  The source's 1e-6, 1e-5 and
\* 1e-10 are taken at a coarser scale that keeps their order and keeps the
\* products of the samples inside the integer range of the checker.
TangentEps == <<1, 8>>

CurvatureEps == <<1, 4>>

NormalTol == <<1, 16>>

Vec3Sub(a, b) == [c \in 1..3 |-> FSub(a[c], b[c])]

\* dot (derivatives.rs:112)
dot(a, b) == FAdd(FAdd(FMul(a[1], b[1]), FMul(a[2], b[2])), FMul(a[3], b[3]))

\* the cross product with its components one place on
Cross_Shifted(du, dv) ==
    << FSub(FMul(du[1], dv[2]), FMul(du[2], dv[1])),
       FSub(FMul(du[2], dv[3]), FMul(du[3], dv[2])),
       FSub(FMul(du[3], dv[1]), FMul(du[1], dv[3])) >>

\* the cross product of compute_normal (derivatives.rs:34-38)
Cross(du, dv) ==
    << FSub(FMul(du[2], dv[3]), FMul(du[3], dv[2])),
       FSub(FMul(du[3], dv[1]), FMul(du[1], dv[3])),
       FSub(FMul(du[1], dv[2]), FMul(du[2], dv[1])) >>

\* the length of compute_normal (derivatives.rs:41)
Length(normal) ==
    FSqrt(FAdd(FAdd(FMul(normal[1], normal[1]), FMul(normal[2], normal[2])),
               FMul(normal[3], normal[3])))

\* the parameter pairs of compute_tangent without the clamps
TangentSamples_Unclamped(u, v, eps) ==
    << <<FAdd(u, eps), v>>,
       <<FSub(u, eps), v>>,
       <<u, FAdd(v, eps)>>,
       <<u, FSub(v, eps)>> >>

\* the parameter pairs compute_tangent evaluates: u_plus, u_minus, v_plus,
\* v_minus (derivatives.rs:8-12)
TangentSamples(u, v, eps) ==
    << <<FMin(FAdd(u, eps), F(1)), v>>,
       <<FMax(FSub(u, eps), F(0)), v>>,
       <<u, FMin(FAdd(v, eps), F(1))>>,
       <<u, FMax(FSub(v, eps), F(0))>> >>

\* the central differences of compute_tangent (derivatives.rs:14-24)
TangentDifferences(p, eps) ==
    LET two_eps == FMul(F(2), eps)
    IN  << <<FDiv(FSub(p[1][1], p[2][1]), two_eps),
             FDiv(FSub(p[1][2], p[2][2]), two_eps),
             FDiv(FSub(p[1][3], p[2][3]), two_eps)>>,
           <<FDiv(FSub(p[3][1], p[4][1]), two_eps),
             FDiv(FSub(p[3][2], p[4][2]), two_eps),
             FDiv(FSub(p[3][3], p[4][3]), two_eps)>> >>

\* compute_tangent: <<du, dv>>
compute_tangent(surface, u, v, chk) ==
    LET Tangents(p) ==
            IF \E i \in 1..4 : ~p[i].ok THEN Panicked
            ELSE Res(TangentDifferences(<<p[1].val, p[2].val, p[3].val, p[4].val>>,
                                        TangentEps))
    IN  CHOOSE ret \in {Tangents(got) : got \in
                {Samples(surface, TangentSamples(u, v, TangentEps), chk)}} : TRUE

\* Normalize with length >= 1e-10
Normalize_Ge(normal) ==
    LET Scaled(length) ==
            IF FGe(length, NormalTol)
            THEN <<FDiv(normal[1], length), FDiv(normal[2], length), FDiv(normal[3], length)>>
            ELSE <<F(0), F(0), F(1)>>
    IN  CHOOSE ret \in {Scaled(got) : got \in {Length(normal)}} : TRUE

\* the normalisation of compute_normal (derivatives.rs:41-47)
Normalize(normal) ==
    LET Scaled(length) ==
            IF FGt(length, NormalTol)
            THEN <<FDiv(normal[1], length), FDiv(normal[2], length), FDiv(normal[3], length)>>
            ELSE <<F(0), F(0), F(1)>>
    IN  CHOOSE ret \in {Scaled(got) : got \in {Length(normal)}} : TRUE

\* compute_normal
compute_normal(surface, u, v, chk) ==
    LET Normal(t) ==
            IF ~t.ok THEN Panicked ELSE Res(Normalize(Cross(t.val[1], t.val[2])))
    IN  CHOOSE ret \in {Normal(got) : got \in {compute_tangent(surface, u, v, chk)}} : TRUE

\* the parameter pairs compute_curvature evaluates after the tangent: p,
\* u_plus, u_minus, v_plus, v_minus, u_plus_v_plus, u_minus_v_minus
\* (derivatives.rs:58-66)
CurvatureSamples(u, v, eps) ==
    LET up == FMin(FAdd(u, eps), F(1))
        um == FMax(FSub(u, eps), F(0))
        vp == FMin(FAdd(v, eps), F(1))
        vm == FMax(FSub(v, eps), F(0))
    IN  << <<u, v>>, <<up, v>>, <<um, v>>, <<u, vp>>, <<u, vm>>, <<up, vp>>, <<um, vm>> >>

\* duv (derivatives.rs:80-84)
MixedPartial(s, eps) ==
    LET p             == s[1]
        u_plus        == s[2]
        v_plus        == s[4]
        u_plus_v_plus == s[6]
    IN  [c \in 1..3 |->
           FDiv(FAdd(FSub(FSub(u_plus_v_plus[c], u_plus[c]), v_plus[c]), p[c]),
                FMul(eps, eps))]

\* the second differences and the two fundamental forms of compute_curvature
\* (derivatives.rs:68-97) from du, dv, the samples s and the normal n
FormCoefficients(du, dv, s, n, eps) ==
    LET p       == s[1]
        u_plus  == s[2]
        u_minus == s[3]
        v_plus  == s[4]
        v_minus == s[5]
        eps2    == FMul(eps, eps)
        duu == [c \in 1..3 |->
                  FDiv(FAdd(FSub(u_plus[c], FMul(F(2), p[c])), u_minus[c]), eps2)]
        dvv == [c \in 1..3 |->
                  FDiv(FAdd(FSub(v_plus[c], FMul(F(2), p[c])), v_minus[c]), eps2)]
        duv == MixedPartial(s, eps)
    IN  [e |-> dot(du, du), f |-> dot(du, dv), g |-> dot(dv, dv),
         l |-> dot(duu, n), m |-> dot(duv, n), n_coef |-> dot(dvv, n)]

\* compute_curvature up to the two fundamental forms (derivatives.rs:52-97)
FundamentalForms(surface, u, v, chk) ==
    LET Forms(t, s, n) ==
            IF ~t.ok \/ (\E i \in 1..7 : ~s[i].ok) \/ ~n.ok THEN Panicked
            ELSE Res(FormCoefficients(t.val[1], t.val[2],
                                      <<s[1].val, s[2].val, s[3].val, s[4].val,
                                        s[5].val, s[6].val, s[7].val>>,
                                      n.val, CurvatureEps))
    IN  CHOOSE ret \in {Forms(got[1], got[2], got[3]) : got \in
                {<< compute_tangent(surface, u, v, chk),
                    Samples(surface, CurvatureSamples(u, v, CurvatureEps), chk),
                    compute_normal(surface, u, v, chk) >>}} : TRUE

\* e * g - f * f, the metric determinant
MetricDet(ff) == FSub(FMul(ff.e, ff.g), FMul(ff.f, ff.f))

\* compute_curvature from the fundamental forms (derivatives.rs:100-108)
PrincipalCurvatures(ff) ==
    LET k_gaussian == FDiv(FSub(FMul(ff.l, ff.n_coef), FMul(ff.m, ff.m)), MetricDet(ff))
        k_mean == FDiv(FAdd(FSub(FMul(ff.e, ff.n_coef), FMul(FMul(F(2), ff.f), ff.m)),
                            FMul(ff.g, ff.l)),
                       FMul(F(2), MetricDet(ff)))
        discriminant == FSqrt(FMax(FSub(FMul(k_mean, k_mean), k_gaussian), F(0)))
    IN  <<FAdd(k_mean, discriminant), FSub(k_mean, discriminant)>>

\* compute_curvature: <<k1, k2>>
compute_curvature(surface, u, v, chk) ==
    LET Curvatures(ff) == IF ~ff.ok THEN Panicked ELSE Res(PrincipalCurvatures(ff.val))
    IN  CHOOSE ret \in {Curvatures(got) : got \in {FundamentalForms(surface, u, v, chk)}} : TRUE

\* -------------------------------------------------------------- ffi.rs --
\* c_int is a signed integer narrower than usize; CIntBits is its width here.
CIntBits == 6

CIntModulus == 2 ^ CIntBits

C_INT_MAX == CIntModulus \div 2 - 1

C_INT_MIN == -(CIntModulus \div 2)

\* the two's-complement value of the low CIntBits bits of i
WrapCInt(i) ==
    LET m == i % CIntModulus
    IN  IF m > C_INT_MAX THEN m - CIntModulus ELSE m

\* the value a c_int operation gives for a panic (outside the range of c_int)
CPanic == C_INT_MIN - 1

\* a * b on c_int: a panic with overflow checks, wrapped without them
CMul(a, b, chk) ==
    IF a = CPanic \/ b = CPanic THEN CPanic
    ELSE IF a * b >= C_INT_MIN /\ a * b <= C_INT_MAX THEN a * b
    ELSE IF chk THEN CPanic
    ELSE WrapCInt(a * b)

\* i as usize, for a c_int i: sign extension
CastUsize(i) == IF i < 0 THEN UsizeModulus + i ELSE i

\* n as c_int, for a usize n: truncation
CastCInt(n) == WrapCInt(n)

\* a * b on usize
UMul(a, b, chk) ==
    IF a = UPanic \/ b = UPanic THEN UPanic
    ELSE IF a * b <= USIZE_MAX THEN a * b
    ELSE IF chk THEN UPanic
    ELSE (a * b) % UsizeModulus

\* whether ndarray's from_shape_vec accepts a vector of len elements for the
\* shape: the product of the non-zero axis lengths fits isize, and the
\* number of elements of the shape is len
FromShapeVecOk(shape, len) ==
    /\ NonZeroProduct(shape) <= ISIZE_MAX
    /\ Product(shape) = len

\* Array3::from_shape_vec((u_res, v_res, 3), v): row-major
Array3FromVec(u_res, v_res, v) ==
    [shape |-> <<u_res, v_res, 3>>,
     at |-> [ij \in ShapeIndex(u_res, v_res) |->
               << v[(ij[1] * v_res + ij[2]) * 3 + 1],
                  v[(ij[1] * v_res + ij[2]) * 3 + 2],
                  v[(ij[1] * v_res + ij[2]) * 3 + 3] >>]]

\* Array2::from_shape_vec((u_res, v_res), v): row-major
Array2FromVec(u_res, v_res, v) ==
    [shape |-> <<u_res, v_res>>,
     at |-> [ij \in ShapeIndex(u_res, v_res) |-> v[ij[1] * v_res + ij[2] + 1]]]

\* slice::from_raw_parts(ptr, len).to_vec() on the caller's buffer
ToVec(buffer, len) == SubSeq(buffer, 1, len)

\* outcomes of a call on the boundary
Aborted == [kind |-> "abort"]

ReturnedNull == [kind |-> "return", ret |-> "null"]

ReturnedHandle(srf) == [kind |-> "return", ret |-> "handle", surface |-> srf]

\* the lengths of the four slices nurbs_create takes from the caller's
\* buffers (ffi.rs:31-38), UPanic where the product panics
CreateSliceLens(u_res, v_res, knots_u_len, knots_v_len, chk) ==
    << UMul(UMul(CastUsize(u_res), CastUsize(v_res), chk), 3, chk),
       UMul(CastUsize(u_res), CastUsize(v_res), chk),
       CastUsize(knots_u_len),
       CastUsize(knots_v_len) >>

\* nurbs_create; a panic inside an extern "C" function aborts the process
nurbs_create(degree_u, degree_v, u_res_c, v_res_c, control_points, weights, knots_u, knots_v, knots_u_len, knots_v_len, chk) ==
    LET u_res == CastUsize(u_res_c)
        v_res == CastUsize(v_res_c)
        lens  == CreateSliceLens(u_res_c, v_res_c, knots_u_len, knots_v_len, chk)
    IN  IF lens[1] = UPanic \/ lens[2] = UPanic THEN Aborted
        ELSE IF ~FromShapeVecOk(<<u_res, v_res, 3>>, lens[1]) THEN ReturnedNull
        ELSE IF ~FromShapeVecOk(<<u_res, v_res>>, lens[2]) THEN ReturnedNull
        ELSE LET r == new(CastUsize(degree_u), CastUsize(degree_v),
                          Array3FromVec(u_res, v_res, ToVec(control_points, lens[1])),
                          Array2FromVec(u_res, v_res, ToVec(weights, lens[2])),
                          ToVec(knots_u, lens[3]), ToVec(knots_v, lens[4]), chk)
             IN  IF r.ok THEN ReturnedHandle(r.val) ELSE Aborted

\* the null handle; a handle is the position of its box in heap
Null == 0

\* A pointer to a caller's buffer: null, or the memory behind it.
NullPtr == [null |-> TRUE, mem |-> <<>>]

Ptr(mem) == [null |-> FALSE, mem |-> mem]

\* copy the sequence src into mem from position at (0-based)
Store(mem, at, src) ==
    [k \in 1..Len(mem) |-> IF k > at /\ k <= at + Len(src) THEN src[k - at] ELSE mem[k]]

RECURSIVE Flatten(_)
Flatten(points) ==
    IF points = <<>> THEN <<>> ELSE Head(points) \o Flatten(Tail(points))

\* what a boundary call leaves: how it ended, the output memory, and whether
\* it evaluated the surface
FfiOutcome(kind, mem, evaluated) == [kind |-> kind, mem |-> mem, evaluated |-> evaluated]

\* the null test of nurbs_evaluate with the output pointer left out
nurbs_evaluate_NullGuard_HandleOnly(handle, output) == handle = Null

\* the null test of nurbs_evaluate (ffi.rs:83)
nurbs_evaluate_NullGuard(handle, output) == handle = Null \/ output.null

\* nurbs_evaluate
nurbs_evaluate(boxes, handle, u, v, output, chk) ==
    IF nurbs_evaluate_NullGuard(handle, output) THEN FfiOutcome("return", output.mem, FALSE)
    ELSE LET Copy(point) ==
                 IF ~point.ok THEN FfiOutcome("abort", output.mem, TRUE)
                 ELSE FfiOutcome("return", Store(output.mem, 0, point.val), TRUE)
         IN  CHOOSE ret \in {Copy(got) : got \in
                 {evaluate(boxes[handle].surface, u, v, chk)}} : TRUE

\* uv_slice.chunks_exact(2).map(|chunk| [chunk[0], chunk[1]])
Chunks2(uv_slice) ==
    [k \in 1..(Len(uv_slice) \div 2) |-> <<uv_slice[2 * k - 1], uv_slice[2 * k]>>]

\* nurbs_evaluate_batch
nurbs_evaluate_batch(boxes, handle, uv_pairs, n, output, chk) ==
    IF handle = Null \/ uv_pairs.null \/ output.null
    THEN FfiOutcome("return", output.mem, FALSE)
    ELSE IF CMul(n, 2, chk) = CPanic \/ CMul(n, 3, chk) = CPanic
    THEN FfiOutcome("abort", output.mem, FALSE)
    ELSE LET uv_slice == ToVec(uv_pairs.mem, CastUsize(CMul(n, 2, chk)))
             Copy(points) ==
                 IF ~points.ok THEN FfiOutcome("abort", output.mem, TRUE)
                 ELSE FfiOutcome("return", Store(output.mem, 0, Flatten(points.val)),
                                 Len(points.val) > 0)
         IN  CHOOSE ret \in {Copy(got) : got \in
                 {evaluate_batch(boxes[handle].surface, Chunks2(uv_slice), chk)}} : TRUE

\* grid.iter(): the elements in row-major order
GridIter(grid) ==
    Flatten([k \in 1..(grid.shape[1] * grid.shape[2]) |->
               grid.at[IndexSeq(grid.shape[1], grid.shape[2])[k]]])

\* nurbs_evaluate_grid
nurbs_evaluate_grid(boxes, handle, u_samples, v_samples, output, chk) ==
    IF handle = Null \/ output.null THEN FfiOutcome("return", output.mem, FALSE)
    ELSE LET len == CMul(CMul(u_samples, v_samples, chk), 3, chk)
             Copy(values) ==
                 IF Len(values) > CastUsize(len)
                 THEN FfiOutcome("abort", Store(output.mem, 0, ToVec(values, CastUsize(len))),
                                 TRUE)
                 ELSE FfiOutcome("return", Store(output.mem, 0, values), Len(values) > 0)
             CopyGrid(grid) ==
                 IF ~grid.ok THEN FfiOutcome("abort", output.mem, TRUE)
                 ELSE IF len = CPanic THEN FfiOutcome("abort", output.mem, TRUE)
                 ELSE CHOOSE ret \in {Copy(got) : got \in {GridIter(grid.val)}} : TRUE
         IN  CHOOSE ret \in {CopyGrid(got) : got \in
                 {evaluate_grid(boxes[handle].surface, CastUsize(u_samples),
                                CastUsize(v_samples), chk)}} : TRUE

\* nurbs_normal
nurbs_normal(boxes, handle, u, v, output, chk) ==
    IF handle = Null \/ output.null THEN FfiOutcome("return", output.mem, FALSE)
    ELSE LET Copy(normal) ==
                 IF ~normal.ok THEN FfiOutcome("abort", output.mem, TRUE)
                 ELSE FfiOutcome("return", Store(output.mem, 0, normal.val), TRUE)
         IN  CHOOSE ret \in {Copy(got) : got \in
                 {compute_normal(boxes[handle].surface, u, v, chk)}} : TRUE

\* nurbs_curvature
nurbs_curvature(boxes, handle, u, v, output, chk) ==
    IF handle = Null \/ output.null THEN FfiOutcome("return", output.mem, FALSE)
    ELSE LET Copy(k) ==
                 IF ~k.ok THEN FfiOutcome("abort", output.mem, TRUE)
                 ELSE FfiOutcome("return", Store(output.mem, 0, k.val), TRUE)
         IN  CHOOSE ret \in {Copy(got) : got \in
                 {compute_curvature(boxes[handle].surface, u, v, chk)}} : TRUE

\* nurbs_dimensions: mem is <<*u_res, *v_res>>; the two c_int outputs are
\* written only if neither pointer is null
nurbs_dimensions(boxes, handle, u_res, v_res) ==
    IF handle = Null \/ u_res.null \/ v_res.null
    THEN FfiOutcome("return", <<u_res.mem, v_res.mem>>, FALSE)
    ELSE LET Copy(d) == FfiOutcome("return", << <<CastCInt(d[1])>>, <<CastCInt(d[2])>> >>,
                                   FALSE)
         IN  CHOOSE ret \in {Copy(got) : got \in {dimensions(boxes[handle].surface)}} : TRUE

\* nurbs_free: the boxes after Box::from_raw(handle) is dropped
nurbs_free(boxes, handle) ==
    IF handle # Null
    THEN [boxes EXCEPT ![handle] = [live |-> FALSE]]
    ELSE boxes

\* ------------------------------------------------------- model bounds --
MaxKnot == 2

MaxKnotLen == 6

MaxDegree == 2

\* Non-decreasing knot vectors (the precondition of basis.rs, which the
\* source leaves to the caller) with integer knots, and the knot vector of
\* the source's tests.
KnotSeqs(len) ==
    {s \in [1..len -> 0..MaxKnot] : \A i \in 1..(len - 1) : s[i] <= s[i + 1]}

KnotVectors ==
    UNION {{[i \in 1..len |-> F(s[i])] : s \in KnotSeqs(len)} : len \in 1..MaxKnotLen}

TestKnots == <<F(0), F(0), F(0), F(0), <<1, 2>>, F(1), F(1), F(1), F(1)>>

TestDegree == 3

BasisInputs ==
    {<<k, d>> : k \in KnotVectors, d \in 0..MaxDegree} \cup {<<TestKnots, TestDegree>>}

TValues == {Rat(k, 4) : k \in -1..(4 * MaxKnot + 1)} \cup {NaN, PInf, NInf}

\* calls of evaluate_all the caller makes with one buffer
MaxCalls == 2

\* What the caller's output buffer may hold before evaluate_all.
Garbage == F(7)

OutputBuffers(knots, degree) ==
    LET n == IF Len(knots) > degree THEN Len(knots) - degree - 1 ELSE 0
    IN  {Zeros(n), [i \in 1..n |-> Garbage], [i \in 1..(n + 1) |-> Garbage]}

\* ---------------------------------------------------------------- state --
VARIABLES
    overflow_checks, \* build profile: TRUE = overflow checks on (debug)
    b_t,             \* evaluate_all: parameter t
    b_knots,         \* evaluate_all: knots
    b_degree,        \* evaluate_all: degree
    b_output,        \* evaluate_all: the caller's output buffer
    b_pc,            \* position of the evaluate_all call
    b_low,           \* find_span: low
    b_high,          \* find_span: high
    b_span,          \* evaluate_all: span
    b_basis,         \* evaluate_all: basis
    b_calls,         \* evaluate_all calls the caller has made on its buffer
    derivs,          \* the evaluate_derivatives call: arguments, position, locals
    s_new,           \* NURBSSurface::new: "none", "ok" or "panicked"
    s_args,          \* NURBSSurface::new: degrees, shapes and knot lengths passed
    surface,         \* the NURBSSurface (NoSurface while there is none)
    call,            \* the call on the surface: operation, arguments, outcome
    heap,            \* the boxes behind the handles given out by nurbs_create
    ffi              \* the call on the C boundary: operation, arguments, outcome

basis_vars ==
    <<b_t, b_knots, b_degree, b_output, b_pc, b_low, b_high, b_span, b_basis, b_calls>>

deriv_vars == <<derivs>>

surface_vars == <<s_new, s_args, surface, call>>

ffi_vars == <<heap, ffi>>

vars == <<overflow_checks, basis_vars, deriv_vars, surface_vars, ffi_vars>>

NoArray == [shape |-> <<>>, at |-> <<>>]

NoSurface ==
    [degree_u |-> 0, degree_v |-> 0, control_points |-> NoArray, weights |-> NoArray,
     knots_u |-> <<>>, knots_v |-> <<>>]

NoCall == [op |-> "none"]

BasisIdle ==
    /\ b_t = F(0) /\ b_knots = <<>> /\ b_degree = 0 /\ b_output = <<>>
    /\ b_pc = "idle" /\ b_low = 0 /\ b_high = 0 /\ b_span = 0 /\ b_basis = <<>>
    /\ b_calls = 0

DerivsIdle == derivs = NoCall

SurfaceIdle ==
    /\ s_new = "none" /\ s_args = <<>> /\ surface = NoSurface /\ call = NoCall

FfiIdle ==
    /\ heap = <<>> /\ ffi = NoCall

\* n of evaluate_all and find_span, as the build computes it
BN == USub(USub(Len(b_knots), b_degree, overflow_checks), 1, overflow_checks)

InitBasis ==
    /\ overflow_checks \in BOOLEAN
    /\ \E in \in BasisInputs :
          /\ b_knots = in[1]
          /\ b_degree = in[2]
          /\ b_output \in OutputBuffers(in[1], in[2])
    /\ b_t \in TValues
    /\ b_pc = "call"
    /\ b_low = 0
    /\ b_high = 0
    /\ b_span = 0
    /\ b_basis = <<>>
    /\ b_calls = 1
    /\ DerivsIdle
    /\ SurfaceIdle
    /\ FfiIdle

\* evaluate_all without the zero fill of output
EvaluateAllEnter_NoZeroFill ==
    /\ b_pc = "call"
    /\ LET e == FindSpanEntry(b_t, b_degree, b_knots, overflow_checks)
       IN  IF BN = UPanic \/ Len(b_output) # BN
           THEN /\ b_pc' = "panicked"
                /\ UNCHANGED <<b_output, b_low, b_high, b_span>>
           ELSE /\ b_output' = b_output
                /\ IF "ret" \in DOMAIN e
                   THEN /\ b_span' = e.ret
                        /\ b_pc' = IF e.ret = UPanic THEN "panicked" ELSE "span"
                        /\ UNCHANGED <<b_low, b_high>>
                   ELSE /\ b_low' = e.low
                        /\ b_high' = e.high
                        /\ b_pc' = "search"
                        /\ UNCHANGED b_span
    /\ UNCHANGED <<overflow_checks, deriv_vars, ffi_vars, surface_vars, b_calls, b_t, b_knots, b_degree, b_basis>>

\* evaluate_all, lines 7-16: n, the length assertion, the zero fill, and
\* find_span up to its loop.
EvaluateAllEnter ==
    /\ b_pc = "call"
    /\ LET e == FindSpanEntry(b_t, b_degree, b_knots, overflow_checks)
       IN  IF BN = UPanic \/ Len(b_output) # BN
           THEN /\ b_pc' = "panicked"
                /\ UNCHANGED <<b_output, b_low, b_high, b_span>>
           ELSE /\ b_output' = Zeros(BN)
                /\ IF "ret" \in DOMAIN e
                   THEN /\ b_span' = e.ret
                        /\ b_pc' = IF e.ret = UPanic THEN "panicked" ELSE "span"
                        /\ UNCHANGED <<b_low, b_high>>
                   ELSE /\ b_low' = e.low
                        /\ b_high' = e.high
                        /\ b_pc' = "search"
                        /\ UNCHANGED b_span
    /\ UNCHANGED <<overflow_checks, deriv_vars, ffi_vars, surface_vars, b_calls, b_t, b_knots, b_degree, b_basis>>

\* find_span, one iteration of the while loop
FindSpanIter ==
    /\ b_pc = "search"
    /\ b_high - b_low > 1
    /\ LET s == SpanStep(b_low, b_high, b_t, b_knots)
       IN  /\ b_low' = s[1]
           /\ b_high' = s[2]
    /\ UNCHANGED <<overflow_checks, deriv_vars, ffi_vars, surface_vars, b_calls, b_t, b_knots, b_degree, b_output, b_pc, b_span, b_basis>>

\* find_span, loop exit: return low
FindSpanReturn ==
    /\ b_pc = "search"
    /\ ~(b_high - b_low > 1)
    /\ b_span' = b_low
    /\ b_pc' = "span"
    /\ UNCHANGED <<overflow_checks, deriv_vars, ffi_vars, surface_vars, b_calls, b_t, b_knots, b_degree, b_output, b_low, b_high, b_basis>>

\* evaluate_all, lines 19-20: basis = vec![0.0; degree + 1]; basis_funs
BasisFuns ==
    /\ b_pc = "span"
    /\ LET blen == UAdd(b_degree, 1, overflow_checks)
       IN  IF blen = UPanic \/ basis_funs_panics(b_span, b_degree, b_knots, Zeros(blen))
           THEN /\ b_pc' = "panicked"
                /\ UNCHANGED b_basis
           ELSE /\ b_basis' = basis_funs(b_span, b_t, b_degree, b_knots, Zeros(blen))
                /\ b_pc' = "basis"
    /\ UNCHANGED <<overflow_checks, deriv_vars, ffi_vars, surface_vars, b_calls, b_t, b_knots, b_degree, b_output, b_low, b_high, b_span>>

\* evaluate_all, lines 23-28: the copy into output
CopyToOutput ==
    /\ b_pc = "basis"
    /\ LET r == Scatter(b_output, b_basis, b_span, b_degree, BN, 0, overflow_checks)
       IN  IF r.ok
           THEN /\ b_output' = r.val
                /\ b_pc' = "done"
           ELSE /\ b_pc' = "panicked"
                /\ UNCHANGED b_output
    /\ UNCHANGED <<overflow_checks, deriv_vars, ffi_vars, surface_vars, b_calls, b_t, b_knots, b_degree, b_low, b_high, b_span, b_basis>>

\* the caller calls evaluate_all again with the same arguments and the
\* buffer the previous call filled
EvaluateAllAgain ==
    /\ b_pc = "done"
    /\ b_calls < MaxCalls
    /\ b_calls' = b_calls + 1
    /\ b_pc' = "call"
    /\ b_low' = 0
    /\ b_high' = 0
    /\ b_span' = 0
    /\ b_basis' = <<>>
    /\ UNCHANGED <<overflow_checks, deriv_vars, ffi_vars, surface_vars, b_t, b_knots, b_degree, b_output>>

NextBasis ==
    \/ EvaluateAllAgain
    \/ EvaluateAllEnter
    \/ FindSpanIter
    \/ FindSpanReturn
    \/ BasisFuns
    \/ CopyToOutput

SpecBasis == InitBasis /\ [][NextBasis]_vars

\* ------------------------------------------- evaluate_derivatives: calls --
\* derivative orders requested
MaxOrder == 3

DerivativeOrders == 0..MaxOrder

\* knot vectors long enough for their degree (n >= degree + 1)
DerivInputs == {in \in BasisInputs : Len(in[1]) >= 2 * (in[2] + 1)}

DerivParams == {F(0), <<1, 2>>, F(1), F(MaxKnot), <<5, 2>>}

\* the caller's rows: one too few, just enough, and more than requested;
\* empty vectors, or vectors longer than degree + 1 holding old values
DerivOutputs(degree, deriv_order) ==
    {[k \in 1..rows |-> row] :
        rows \in {Min(deriv_order, degree), Min(deriv_order, degree) + 1, deriv_order + 2},
        row \in {<<>>, [j \in 1..(degree + 2) |-> Garbage]}}

InitDerivatives ==
    /\ overflow_checks \in BOOLEAN
    /\ BasisIdle
    /\ SurfaceIdle
    /\ FfiIdle
    /\ \E in \in DerivInputs, t \in DerivParams, deriv_order \in DerivativeOrders :
          \E output \in DerivOutputs(in[2], deriv_order) :
             derivs = [op |-> "evaluate_derivatives", pc |-> "call",
                       t |-> t, knots |-> in[1], degree |-> in[2],
                       deriv_order |-> deriv_order, output |-> output,
                       ndu |-> <<>>, r |-> 0]

\* evaluate_derivatives, lines 92-126: find_span, the resize of the rows,
\* the table ndu, and the load of the basis functions into output[0]
EvaluateDerivativesEnter ==
    /\ derivs.op = "evaluate_derivatives" /\ derivs.pc = "call"
    /\ \E span \in {find_span(derivs.t, derivs.degree, derivs.knots, overflow_checks)},
          blen \in {UAdd(derivs.degree, 1, overflow_checks)} :
          IF \/ span = UPanic \/ blen = UPanic
             \/ basis_funs_panics(span, derivs.degree, derivs.knots, Zeros(blen))
             \/ Len(derivs.output) = 0
          THEN derivs' = [derivs EXCEPT !.pc = "panicked"]
          ELSE \E ndu \in {NduTable(span, derivs.t, derivs.degree, derivs.knots)} :
                  derivs' = [derivs EXCEPT
                      !.pc = "rows",
                      !.ndu = ndu,
                      !.output = [k \in 1..Len(derivs.output) |->
                                    IF k = 1
                                    THEN [j \in 1..blen |-> Cell(ndu, j - 1, derivs.degree)]
                                    ELSE Resize(derivs.output[k], blen)]]
    /\ UNCHANGED <<overflow_checks, basis_vars, surface_vars, ffi_vars>>

\* evaluate_derivatives, lines 129-167: one iteration of the loop over r
EvaluateDerivativesRow ==
    /\ derivs.op = "evaluate_derivatives" /\ derivs.pc = "rows"
    /\ \E got \in {DerivRow(derivs.ndu, derivs.degree, derivs.deriv_order, derivs.r,
                             derivs.output, overflow_checks)} :
          IF ~got.ok
          THEN derivs' = [derivs EXCEPT !.pc = "panicked"]
          ELSE derivs' = [derivs EXCEPT
                  !.output = got.val,
                  !.r = derivs.r + 1,
                  !.pc = IF derivs.r = derivs.degree THEN "scale" ELSE "rows"]
    /\ UNCHANGED <<overflow_checks, basis_vars, surface_vars, ffi_vars>>

\* evaluate_derivatives, lines 170-176, and the return
EvaluateDerivativesScale ==
    /\ derivs.op = "evaluate_derivatives" /\ derivs.pc = "scale"
    /\ derivs' = [derivs EXCEPT
          !.pc = "done",
          !.output = DerivScale(derivs.output, derivs.degree, 1,
                                Min(derivs.deriv_order, derivs.degree), F(derivs.degree))]
    /\ UNCHANGED <<overflow_checks, basis_vars, surface_vars, ffi_vars>>

NextDerivatives ==
    \/ EvaluateDerivativesEnter
    \/ EvaluateDerivativesRow
    \/ EvaluateDerivativesScale

SpecDerivatives == InitDerivatives /\ [][NextDerivatives]_vars

\* --------------------------------------------- surface: inputs of the model
MaxCount == 3

MaxBatch == 2

\* control-point counts per axis
Counts == 2..MaxCount

\* degrees passed to new; USIZE_MAX is what a negative c_int becomes
SurfaceDegrees == {1, 2, USIZE_MAX}

\* inner dimensions of the control-point array passed to new
InnerDims == {3, 4}

\* knot vectors passed to new: clamped on [0,1] (the first three are those
\* of the source's tests and their like), with a repeated end knot, and one
\* too short for any degree >= 1
SurfaceKnots ==
    { <<F(0), F(0), F(1), F(1)>>,
      <<F(0), F(0), <<1, 2>>, F(1), F(1)>>,
      <<F(0), F(0), F(0), F(1), F(1), F(1)>>,
      <<F(0), F(0), F(0), F(1)>>,
      <<F(0), F(0), F(0), F(1), F(1)>>,
      <<F(0), F(1)>> }

\* the control nets passed to new, each with the kind of its weights
Nets == {<<"plane", "ones">>, <<"twist", "mixed">>, <<"twist", "signed">>}

\* "plane": the flat unit square of the tests; "flipped": the same with u
\* and v exchanged; "tiny": the flipped square with side 1/4; "point": every
\* control point the same; "twist": a saddle away from the origin
NetPoint(net, u_res, v_res, i, j) ==
    IF net = "plane" THEN <<Rat(i, u_res - 1), Rat(j, v_res - 1), F(0)>>
    ELSE IF net = "flipped" THEN <<Rat(j, v_res - 1), Rat(i, u_res - 1), F(0)>>
    ELSE IF net = "tiny" THEN <<Rat(j, 4 * (v_res - 1)), Rat(i, 4 * (u_res - 1)), F(0)>>
    ELSE IF net = "point" THEN <<F(1), F(1), F(1)>>
    ELSE IF net = "bump"
         THEN <<Rat(i, u_res - 1), Rat(j, v_res - 1), F((i \div 2) * (j \div 2))>>
    ELSE <<F(i + 1), F(j + 2), F(i * j + 3)>>

ControlNet(net, u_res, v_res, dim) ==
    [shape |-> <<u_res, v_res, dim>>,
     at |-> [ij \in ShapeIndex(u_res, v_res) |->
               SubSeq(NetPoint(net, u_res, v_res, ij[1], ij[2]) \o <<F(0)>>, 1, dim)]]

\* "ones" and "mixed" are positive; "signed" alternates +1 and -1
WeightAt(kind, i, j) ==
    IF kind = "ones" THEN F(1)
    ELSE IF kind = "mixed" THEN F(1 + ((i + j) % 2))
    ELSE IF (i + j) % 2 = 0 THEN F(1) ELSE F(-1)

WeightGrid(kind, u_res, v_res) ==
    [shape |-> <<u_res, v_res>>,
     at |-> [ij \in ShapeIndex(u_res, v_res) |-> WeightAt(kind, ij[1], ij[2])]]

\* parameters passed to evaluate: inside the domain, outside it, and NaN
Params == {F(0), <<1, 4>>, <<1, 2>>, F(1), <<5, 4>>, NaN}

\* sample counts passed to evaluate_grid
MaxSamples == 3

GridSamples == 0..MaxSamples

\* (u, v) pairs of a batch
BatchPairs == {<<F(0), F(0)>>, <<<<1, 2>>, <<1, 2>>>>}

BatchInputs == UNION {[1..len -> BatchPairs] : len \in 0..MaxBatch}

\* -------------------------------------------------- surface: operations --
InitSurface ==
    /\ overflow_checks \in BOOLEAN
    /\ BasisIdle
    /\ DerivsIdle
    /\ SurfaceIdle
    /\ FfiIdle

\* NURBSSurface::new
New ==
    /\ s_new = "none"
    /\ \E degree_u \in SurfaceDegrees, degree_v \in SurfaceDegrees,
          u_res \in Counts, v_res \in Counts, dim \in InnerDims,
          wu \in Counts, wv \in Counts,
          net \in Nets,
          knots_u \in SurfaceKnots, knots_v \in SurfaceKnots :
          LET r == new(degree_u, degree_v, ControlNet(net[1], u_res, v_res, dim),
                       WeightGrid(net[2], wu, wv), knots_u, knots_v, overflow_checks)
          IN  /\ s_args' = [degree_u |-> degree_u, degree_v |-> degree_v,
                            cp_shape |-> <<u_res, v_res, dim>>, w_shape |-> <<wu, wv>>,
                            len_u |-> Len(knots_u), len_v |-> Len(knots_v)]
              /\ s_new' = IF r.ok THEN "ok" ELSE "panicked"
              /\ surface' = IF r.ok THEN r.val ELSE NoSurface
    /\ UNCHANGED <<overflow_checks, deriv_vars, ffi_vars, basis_vars, call>>

\* between two calls
Returned == [op |-> "returned"]

\* the caller starts a call on the surface it holds
CallFree == s_new = "ok" /\ call \in {NoCall, Returned}

\* the caller has taken the outcome of the call
Return ==
    /\ call.op \notin {"none", "returned"}
    /\ ~(call.op \in {"evaluate_batch", "evaluate_grid"} /\ call.pc = "running")
    /\ call' = Returned
    /\ UNCHANGED <<overflow_checks, deriv_vars, ffi_vars, basis_vars, s_new, s_args, surface>>

\* evaluate with a memory of earlier calls: once a call was made on the
\* surface it answers for the parameters exchanged
Evaluate_Remembering ==
    /\ CallFree
    /\ \E u \in Params, v \in Params :
          call' = [op |-> "evaluate", u |-> u, v |-> v,
                   ret |-> IF call = Returned
                           THEN evaluate(surface, v, u, overflow_checks)
                           ELSE evaluate(surface, u, v, overflow_checks)]
    /\ UNCHANGED <<overflow_checks, deriv_vars, ffi_vars, basis_vars, s_new, s_args, surface>>

\* NURBSSurface::evaluate
Evaluate ==
    /\ CallFree
    /\ \E u \in Params, v \in Params :
          call' = [op |-> "evaluate", u |-> u, v |-> v,
                   ret |-> evaluate(surface, u, v, overflow_checks)]
    /\ UNCHANGED <<overflow_checks, deriv_vars, ffi_vars, basis_vars, s_new, s_args, surface>>

\* NURBSSurface::control_point
ControlPoint ==
    /\ CallFree
    /\ \E i \in 0..MaxCount, j \in 0..MaxCount :
          call' = [op |-> "control_point", i |-> i, j |-> j,
                   ret |-> control_point(surface, i, j)]
    /\ UNCHANGED <<overflow_checks, deriv_vars, ffi_vars, basis_vars, s_new, s_args, surface>>

\* NURBSSurface::weight
Weight ==
    /\ CallFree
    /\ \E i \in 0..MaxCount, j \in 0..MaxCount :
          call' = [op |-> "weight", i |-> i, j |-> j, ret |-> weight(surface, i, j)]
    /\ UNCHANGED <<overflow_checks, deriv_vars, ffi_vars, basis_vars, s_new, s_args, surface>>

\* NURBSSurface::dimensions
Dimensions ==
    /\ CallFree
    /\ call' = [op |-> "dimensions", ret |-> Res(dimensions(surface))]
    /\ UNCHANGED <<overflow_checks, deriv_vars, ffi_vars, basis_vars, s_new, s_args, surface>>

EmptySlot == [filled |-> FALSE]

\* the first slot not yet filled: results stored in order of completion
BatchSlot_Push(k, slots) ==
    CHOOSE i \in 1..Len(slots) : ~slots[i].filled /\ \A j \in 1..(i - 1) : slots[j].filled

\* the slot of the collected Vec that receives the result of item k:
\* collect() of an indexed parallel iterator writes item k at index k
BatchSlot(k, slots) == k

\* evaluate_batch: par_iter() hands the items to the worker pool
EvaluateBatch ==
    /\ CallFree
    /\ \E uv_pairs \in BatchInputs :
          call' = [op |-> "evaluate_batch", uv_pairs |-> uv_pairs, pc |-> "running",
                   slots |-> [k \in 1..Len(uv_pairs) |-> EmptySlot]]
    /\ UNCHANGED <<overflow_checks, deriv_vars, ffi_vars, basis_vars, s_new, s_args, surface>>

\* evaluate_batch: some worker maps one item not yet taken; a panic of the
\* closure is propagated to the caller of evaluate_batch
BatchWorker ==
    /\ call.op = "evaluate_batch" /\ call.pc = "running"
    /\ \E k \in 1..Len(call.uv_pairs) :
          /\ ~call.slots[k].filled
          /\ LET r == evaluate(surface, call.uv_pairs[k][1], call.uv_pairs[k][2],
                               overflow_checks)
             IN  call' = IF r.ok
                         THEN [call EXCEPT !.slots[BatchSlot(k, call.slots)] =
                                               [filled |-> TRUE, val |-> r.val]]
                         ELSE [call EXCEPT !.pc = "panicked"]
    /\ UNCHANGED <<overflow_checks, deriv_vars, ffi_vars, basis_vars, s_new, s_args, surface>>

\* evaluate_batch: every item is mapped; collect() returns the Vec
BatchCollect ==
    /\ call.op = "evaluate_batch" /\ call.pc = "running"
    /\ \A k \in 1..Len(call.uv_pairs) : call.slots[k].filled
    /\ call' = [op |-> "evaluate_batch", uv_pairs |-> call.uv_pairs, pc |-> "done",
                slots |-> call.slots,
                ret |-> [k \in 1..Len(call.slots) |-> call.slots[k].val]]
    /\ UNCHANGED <<overflow_checks, deriv_vars, ffi_vars, basis_vars, s_new, s_args, surface>>

\* the threads of the worker pool
Workers == 1..2

\* no worker has taken the row yet
Unclaimed == 0

\* the rows of the grid that worker w has taken and not finished
RowsOf(w) ==
    {i \in 0..(call.u_samples - 1) :
        call.rows[i].owner = w /\ call.rows[i].next < call.v_samples}

\* evaluate_grid up to the parallel loop (surface.rs:102-109): the zeroed
\* grid and the two steps; into_par_iter() hands the rows to the worker pool
EvaluateGrid ==
    /\ CallFree
    /\ \E u_samples \in GridSamples, v_samples \in GridSamples :
          call' = IF \/ NonZeroProduct(<<u_samples, v_samples, 3>>) > ISIZE_MAX
                     \/ USub(u_samples, 1, overflow_checks) = UPanic
                     \/ USub(v_samples, 1, overflow_checks) = UPanic
                  THEN [op |-> "evaluate_grid", u_samples |-> u_samples,
                        v_samples |-> v_samples, pc |-> "panicked"]
                  ELSE [op |-> "evaluate_grid", u_samples |-> u_samples,
                        v_samples |-> v_samples, pc |-> "running",
                        um |-> USub(u_samples, 1, overflow_checks),
                        vm |-> USub(v_samples, 1, overflow_checks),
                        rows |-> [i \in 0..(u_samples - 1) |->
                                    [owner |-> Unclaimed, next |-> 0]],
                        grid |-> [p \in ShapeIndex(u_samples, v_samples) |->
                                    <<F(0), F(0), F(0)>>],
                        writers |-> [p \in ShapeIndex(u_samples, v_samples) |-> <<>>]]
    /\ UNCHANGED <<overflow_checks, deriv_vars, ffi_vars, basis_vars, s_new, s_args, surface>>

\* evaluate_grid: a worker with no row in hand takes a row no worker has
\* taken; the closure runs on that worker from the first element to the last
GridTakeRow ==
    /\ call.op = "evaluate_grid" /\ call.pc = "running"
    /\ \E w \in Workers, i \in 0..(call.u_samples - 1) :
          /\ RowsOf(w) = {}
          /\ call.rows[i].owner = Unclaimed
          /\ call' = [call EXCEPT !.rows[i].owner = w]
    /\ UNCHANGED <<overflow_checks, deriv_vars, ffi_vars, basis_vars, s_new, s_args, surface>>

\* evaluate_grid: a worker evaluates and writes the next element of its row
\* (surface.rs:111-119); a panic of the closure is propagated to the caller
GridWorker ==
    /\ call.op = "evaluate_grid" /\ call.pc = "running"
    /\ \E w \in Workers :
          \E i \in RowsOf(w) :
             LET j == call.rows[i].next
                 point == evaluate(surface, GridParam(i, call.um), GridParam(j, call.vm),
                                   overflow_checks)
             IN  call' = IF point.ok
                         THEN [call EXCEPT !.grid[<<i, j>>] = point.val,
                                           !.writers[<<i, j>>] = Append(@, w),
                                           !.rows[i].next = j + 1]
                         ELSE [call EXCEPT !.pc = "panicked"]
    /\ UNCHANGED <<overflow_checks, deriv_vars, ffi_vars, basis_vars, s_new, s_args, surface>>

\* evaluate_grid: every row is finished; the grid is returned
GridCollect ==
    /\ call.op = "evaluate_grid" /\ call.pc = "running"
    /\ \A i \in 0..(call.u_samples - 1) : call.rows[i].next = call.v_samples
    /\ call' = [call EXCEPT !.pc = "done"]
                 @@ [ret |-> [shape |-> <<call.u_samples, call.v_samples, 3>>,
                              at |-> call.grid]]
    /\ UNCHANGED <<overflow_checks, deriv_vars, ffi_vars, basis_vars, s_new, s_args, surface>>

NextSurface ==
    \/ New
    \/ Evaluate
    \/ EvaluateBatch
    \/ BatchWorker
    \/ BatchCollect
    \/ Return

SpecSurface == InitSurface /\ [][NextSurface]_vars

\* ------------------------------------------- differential geometry: runs --
GeometryNets ==
    {<<"plane", "ones">>, <<"flipped", "ones">>, <<"tiny", "ones">>, <<"point", "ones">>,
     <<"twist", "ones">>, <<"twist", "signed">>, <<"bump", "ones">>}

GeometryDegrees == {1, 2}

\* parameters passed to compute_normal and compute_curvature
GeometryParams == {F(0), <<1, 4>>, <<1, 2>>, F(1)}

\* a surface built by new from one of nets is held, as many control points
\* and the same degree in both directions, the saddle bilinear; nothing was
\* called yet
Holding(nets) ==
    /\ overflow_checks \in BOOLEAN
    /\ BasisIdle
    /\ DerivsIdle
    /\ FfiIdle
    /\ call = NoCall
    /\ s_new = "ok"
    /\ \E degree_u \in GeometryDegrees, u_res \in Counts, net \in nets,
          knots_u \in SurfaceKnots, knots_v \in SurfaceKnots :
          LET degree_v == degree_u
              v_res == u_res
              r == new(degree_u, degree_v, ControlNet(net[1], u_res, v_res, 3),
                       WeightGrid(net[2], u_res, v_res), knots_u, knots_v, overflow_checks)
          IN  /\ net[1] \in {"twist", "bump"} => degree_u = 1
              /\ r.ok
              /\ surface = r.val
              /\ s_args = [degree_u |-> degree_u, degree_v |-> degree_v,
                           cp_shape |-> <<u_res, v_res, 3>>, w_shape |-> <<u_res, v_res>>,
                           len_u |-> Len(knots_u), len_v |-> Len(knots_v)]

InitGeometry == Holding(GeometryNets)

\* compute_tangent
ComputeTangent ==
    /\ CallFree
    /\ \E u \in GeometryParams, v \in GeometryParams :
          call' = [op |-> "compute_tangent", u |-> u, v |-> v,
                   ret |-> compute_tangent(surface, u, v, overflow_checks)]
    /\ UNCHANGED <<overflow_checks, deriv_vars, ffi_vars, basis_vars, s_new, s_args, surface>>

\* compute_normal
ComputeNormal ==
    /\ CallFree
    /\ \E u \in GeometryParams, v \in GeometryParams :
          call' = [op |-> "compute_normal", u |-> u, v |-> v,
                   ret |-> compute_normal(surface, u, v, overflow_checks)]
    /\ UNCHANGED <<overflow_checks, deriv_vars, ffi_vars, basis_vars, s_new, s_args, surface>>

\* compute_curvature
ComputeCurvature ==
    /\ CallFree
    /\ \E u \in GeometryParams, v \in GeometryParams :
          call' = [op |-> "compute_curvature", u |-> u, v |-> v,
                   ret |-> compute_curvature(surface, u, v, overflow_checks)]
    /\ UNCHANGED <<overflow_checks, deriv_vars, ffi_vars, basis_vars, s_new, s_args, surface>>

NextGeometry ==
    \/ ComputeNormal
    \/ ComputeCurvature
    \/ Return

SpecGeometry == InitGeometry /\ [][NextGeometry]_vars

\* ------------------------------------------------- C boundary: inputs --
MaxHandles == 2

CreateDegrees == {-1, 1}

CreateCounts == {-1, 2}

CreateKnotLens == {2, 3, 4}

CreateNets == {<<"plane", "ones">>, <<"point", "ones">>}

\* the caller's knot buffer
CreateKnots == <<F(0), F(0), F(1), F(1)>>

\* the caller's flat control-point buffer [u_res * v_res * 3], row-major
FlatControlPoints(net, u_res, v_res) ==
    [k \in 1..(u_res * v_res * 3) |->
        NetPoint(net, u_res, v_res, ((k - 1) \div 3) \div v_res,
                 ((k - 1) \div 3) % v_res)[((k - 1) % 3) + 1]]

\* the caller's flat weight buffer [u_res * v_res], row-major
FlatWeights(kind, u_res, v_res) ==
    [k \in 1..(u_res * v_res) |-> WeightAt(kind, (k - 1) \div v_res, (k - 1) % v_res)]

\* the number of control points per axis the caller's buffers are laid out for
BufferCount(count) == IF count > 0 THEN count ELSE 2

\* parameters passed over the boundary
FfiParams == {F(0), <<1, 2>>}

\* the pairs the caller's uv buffer holds
FfiBatch == << <<F(0), F(0)>>, <<<<1, 2>>, <<1, 2>>>> >>

\* u_samples and v_samples passed over the boundary
FfiSamples == {2, 3}

\* an output pointer: null, or a buffer of len numbers not yet written
OutputPtrs(len) == {NullPtr, Ptr([k \in 1..len |-> Garbage])}

\* a pointer to one c_int: null, or a c_int not yet written
CIntPtrs == {NullPtr, Ptr(<<C_INT_MIN>>)}

\* the caller may start a call on the boundary
FfiFree == ffi.op \in {"none", "returned"}

\* handles whose box has not been freed
LiveHandles == {h \in 1..Len(heap) : heap[h].live}

\* --------------------------------------------- C boundary: operations --
InitFfi ==
    /\ overflow_checks \in BOOLEAN
    /\ BasisIdle
    /\ DerivsIdle
    /\ SurfaceIdle
    /\ FfiIdle

\* nurbs_create on buffers the slices stay inside of (the function's safety
\* contract); Box::into_raw puts the surface into a new box
NurbsCreate ==
    /\ FfiFree
    /\ Len(heap) < MaxHandles
    /\ \E degree_u \in CreateDegrees, degree_v \in CreateDegrees,
          u_res \in CreateCounts, v_res \in CreateCounts,
          knots_u_len \in CreateKnotLens, knots_v_len \in CreateKnotLens,
          net \in CreateNets :
          LET bu == BufferCount(u_res)
              bv == BufferCount(v_res)
              control_points == FlatControlPoints(net[1], bu, bv)
              weights == FlatWeights(net[2], bu, bv)
              lens == CreateSliceLens(u_res, v_res, knots_u_len, knots_v_len,
                                      overflow_checks)
          IN  /\ lens[1] # UPanic => lens[1] <= Len(control_points)
              /\ lens[2] # UPanic => lens[2] <= Len(weights)
              /\ lens[3] <= Len(CreateKnots)
              /\ lens[4] <= Len(CreateKnots)
              /\ \E out \in {nurbs_create(degree_u, degree_v, u_res, v_res,
                                           control_points, weights, CreateKnots,
                                           CreateKnots, knots_u_len, knots_v_len,
                                           overflow_checks)} :
                    /\ ffi' = [op |-> "nurbs_create",
                               degree_u |-> degree_u, degree_v |-> degree_v,
                               u_res |-> u_res, v_res |-> v_res,
                               knots_u_len |-> knots_u_len, knots_v_len |-> knots_v_len,
                               kind |-> out.kind,
                               ret |-> IF out.kind = "return" /\ out.ret = "handle"
                                       THEN Len(heap) + 1 ELSE Null]
                    /\ heap' = IF out.kind = "return" /\ out.ret = "handle"
                               THEN Append(heap, [live |-> TRUE, surface |-> out.surface])
                               ELSE heap
    /\ UNCHANGED <<overflow_checks, deriv_vars, basis_vars, surface_vars>>

\* nurbs_free on null or on a handle not yet freed
NurbsFree ==
    /\ FfiFree
    /\ \E handle \in {Null} \cup LiveHandles :
          /\ heap' = nurbs_free(heap, handle)
          /\ ffi' = [op |-> "nurbs_free", handle |-> handle, kind |-> "return",
                     output |-> NullPtr, mem |-> <<>>, evaluated |-> FALSE]
    /\ UNCHANGED <<overflow_checks, deriv_vars, basis_vars, surface_vars>>

\* nurbs_evaluate with a handle and an output pointer that are null or valid
NurbsEvaluate ==
    /\ FfiFree
    /\ \E handle \in {Null} \cup LiveHandles, u \in FfiParams, v \in FfiParams,
          output \in OutputPtrs(3) :
          ffi' = [op |-> "nurbs_evaluate", handle |-> handle, u |-> u, v |-> v,
                  output |-> output]
                 @@ nurbs_evaluate(heap, handle, u, v, output, overflow_checks)
    /\ UNCHANGED <<overflow_checks, deriv_vars, basis_vars, surface_vars, heap>>

\* nurbs_evaluate_batch with buffers of n pairs and n points
NurbsEvaluateBatch ==
    /\ FfiFree
    /\ \E handle \in {Null} \cup LiveHandles, n \in 0..MaxBatch,
          uv_null \in BOOLEAN, output \in OutputPtrs(3 * MaxBatch) :
          LET uv_pairs == IF uv_null THEN NullPtr
                          ELSE Ptr(Flatten([k \in 1..MaxBatch |->
                                                FfiBatch[((k - 1) % Len(FfiBatch)) + 1]]))
          IN  ffi' = [op |-> "nurbs_evaluate_batch", handle |-> handle, n |-> n,
                      uv_pairs |-> uv_pairs, output |-> output]
                     @@ nurbs_evaluate_batch(heap, handle, uv_pairs, n, output,
                                             overflow_checks)
    /\ UNCHANGED <<overflow_checks, deriv_vars, basis_vars, surface_vars, heap>>

\* nurbs_evaluate_grid with an output buffer of u_samples * v_samples * 3
NurbsEvaluateGrid ==
    /\ FfiFree
    /\ \E handle \in {Null} \cup LiveHandles, u_samples \in FfiSamples,
          v_samples \in FfiSamples, null \in BOOLEAN :
          LET output == IF null THEN NullPtr
                        ELSE Ptr([k \in 1..(u_samples * v_samples * 3) |-> Garbage])
          IN  ffi' = [op |-> "nurbs_evaluate_grid", handle |-> handle,
                      u_samples |-> u_samples, v_samples |-> v_samples,
                      output |-> output]
                     @@ nurbs_evaluate_grid(heap, handle, u_samples, v_samples, output,
                                            overflow_checks)
    /\ UNCHANGED <<overflow_checks, deriv_vars, basis_vars, surface_vars, heap>>

\* nurbs_normal
NurbsNormal ==
    /\ FfiFree
    /\ \E handle \in {Null} \cup LiveHandles, u \in FfiParams, v \in FfiParams,
          output \in OutputPtrs(3) :
          ffi' = [op |-> "nurbs_normal", handle |-> handle, u |-> u, v |-> v,
                  output |-> output]
                 @@ nurbs_normal(heap, handle, u, v, output, overflow_checks)
    /\ UNCHANGED <<overflow_checks, deriv_vars, basis_vars, surface_vars, heap>>

\* nurbs_curvature
NurbsCurvature ==
    /\ FfiFree
    /\ \E handle \in {Null} \cup LiveHandles, u \in FfiParams, v \in FfiParams,
          output \in OutputPtrs(2) :
          ffi' = [op |-> "nurbs_curvature", handle |-> handle, u |-> u, v |-> v,
                  output |-> output]
                 @@ nurbs_curvature(heap, handle, u, v, output, overflow_checks)
    /\ UNCHANGED <<overflow_checks, deriv_vars, basis_vars, surface_vars, heap>>

\* nurbs_dimensions
NurbsDimensions ==
    /\ FfiFree
    /\ \E handle \in {Null} \cup LiveHandles, u_res \in CIntPtrs, v_res \in CIntPtrs :
          ffi' = [op |-> "nurbs_dimensions", handle |-> handle,
                  output |-> [null |-> u_res.null \/ v_res.null,
                              mem |-> <<u_res.mem, v_res.mem>>]]
                 @@ nurbs_dimensions(heap, handle, u_res, v_res)
    /\ UNCHANGED <<overflow_checks, deriv_vars, basis_vars, surface_vars, heap>>

\* the caller has taken the outcome of a call that returned; after an abort
\* there is no process left to take a step
FfiReturn ==
    /\ ffi.op \notin {"none", "returned"}
    /\ ffi.kind = "return"
    /\ ffi' = Returned
    /\ UNCHANGED <<overflow_checks, deriv_vars, basis_vars, surface_vars, heap>>

NextFfi ==
    \/ NurbsCreate
    \/ NurbsEvaluate
    \/ NurbsEvaluateBatch
    \/ NurbsEvaluateGrid
    \/ NurbsNormal
    \/ NurbsCurvature
    \/ NurbsDimensions
    \/ NurbsFree
    \/ FfiReturn

SpecFfi == InitFfi /\ [][NextFfi]_vars

\* ---------------------------------------------- every operation: runs --
CallNets == {<<"twist", "ones">>}

InitCalls == Holding(CallNets)

NextCalls ==
    \/ Evaluate
    \/ EvaluateBatch
    \/ BatchWorker
    \/ BatchCollect
    \/ EvaluateGrid
    \/ GridTakeRow
    \/ GridWorker
    \/ GridCollect
    \/ ControlPoint
    \/ Weight
    \/ Dimensions
    \/ ComputeTangent
    \/ ComputeNormal
    \/ ComputeCurvature
    \/ Return

SpecCalls == InitCalls /\ [][NextCalls]_vars

\* ------------------------------------------------------- grid: runs --
GridNets == {<<"plane", "ones">>, <<"twist", "signed">>}

InitGrid == Holding(GridNets)

NextGrid ==
    \/ EvaluateGrid
    \/ GridTakeRow
    \/ GridWorker
    \/ GridCollect
    \/ Return

SpecGrid == InitGrid /\ [][NextGrid]_vars

\* ------------------------------------------- differential geometry: claims --
NormalCall == call.op = "compute_normal" /\ call.ret.ok

CurvatureCall == call.op = "compute_curvature" /\ call.ret.ok

\* du x dv and its magnitude at the parameters of the call
CallCross ==
    LET t == compute_tangent(surface, call.u, call.v, overflow_checks).val
    IN  Cross(t[1], t[2])

CallLength == Length(CallCross)

Fallback == <<F(0), F(0), F(1)>>

Unit == [c \in 1..3 |-> FDiv(CallCross[c], CallLength)]

\* the metric determinant at the parameters of the call
CallDet == MetricDet(FundamentalForms(surface, call.u, call.v, overflow_checks).val)

\* the degenerate-determinant tolerance (1e-14), at the scale of NormalTol
DetTol == FMul(NormalTol, NormalTol)

\* C8 (as stated): compute_curvature returns (0,0) whenever
\* |E*G - F*F| < 1e-14, and then returns neither NaN nor an infinity.
C8_DegenerateCurvature ==
    (CurvatureCall /\ FLt(FAbs(CallDet), DetTol))
        => /\ call.ret.val = <<F(0), F(0)>>
           /\ \A c \in 1..2 : IsFinite(call.ret.val[c])

\* C9 (as stated): compute_normal returns (0,0,1) whenever |du x dv| is
\* below 1e-10 and (du x dv)/|du x dv| otherwise, never dividing by a zero
\* magnitude and never returning a non-finite component.
C9_AsStated ==
    NormalCall
        => /\ call.ret.val = IF FLt(CallLength, NormalTol) THEN Fallback ELSE Unit
           /\ \A c \in 1..3 : IsFinite(call.ret.val[c])

\* C9: compute_normal returns (0,0,1) whenever |du x dv| is not greater
\* than 1e-10 (below it, equal to it, or NaN) and (du x dv)/|du x dv|
\* otherwise; it divides only by a magnitude above 1e-10, and every
\* component it returns is finite whenever the magnitude is.
C9_NormalFallback ==
    NormalCall
        => /\ ~FGt(CallLength, NormalTol) => call.ret.val = Fallback
           /\ FGt(CallLength, NormalTol)
                => call.ret.val = Unit /\ FGt(CallLength, F(0)) /\ ~IsZero(CallLength)
           /\ IsFinite(CallLength) => \A c \in 1..3 : IsFinite(call.ret.val[c])

\* compute_normal returned the fallback for a magnitude equal to the
\* tolerance, where the cross product points the other way
C9_Witness ==
    /\ NormalCall
    /\ CallLength = NormalTol
    /\ FLt(CallCross[3], F(0))
    /\ call.ret.val = Fallback

\* ---------------------------------------------------- surface: claims --
BatchDone == call.op = "evaluate_batch" /\ call.pc = "done"

\* what a sequential evaluate of item k of the batch gives
Sequential(k) ==
    evaluate(surface, call.uv_pairs[k][1], call.uv_pairs[k][2], overflow_checks)

\* C1: under every interleaving of the workers, evaluate_batch returns a
\* list of the length of its input whose k-th element is evaluate of the
\* k-th pair; while it runs every slot written holds the value of its own
\* pair, and it panics only if evaluate of one of its pairs does.
C1_BatchEqualsSequential ==
    call.op = "evaluate_batch" =>
        /\ Len(call.slots) = Len(call.uv_pairs)
        /\ \A k \in 1..Len(call.slots) :
              call.slots[k].filled => Sequential(k) = Res(call.slots[k].val)
        /\ call.pc = "done" =>
              /\ Len(call.ret) = Len(call.uv_pairs)
              /\ \A k \in 1..Len(call.uv_pairs) : Sequential(k) = Res(call.ret[k])
        /\ call.pc = "panicked" => \E k \in 1..Len(call.uv_pairs) : ~Sequential(k).ok

C1_Witness ==
    /\ BatchDone /\ Len(call.ret) = 2 /\ call.ret[1] # call.ret[2]
    /\ call.uv_pairs[1] = <<<<1, 2>>, <<1, 2>>>>

GridCall == call.op = "evaluate_grid" /\ call.u_samples >= 2 /\ call.v_samples >= 2

\* evaluate at the sample of slot (i, j): (i/(u_samples-1), j/(v_samples-1))
GridSample(i, j) ==
    evaluate(surface, FDiv(F(i), F(call.u_samples - 1)), FDiv(F(j), F(call.v_samples - 1)),
             overflow_checks)

ShapeConditions(a) ==
    /\ a.cp_shape[3] = 3
    /\ a.w_shape = <<a.cp_shape[1], a.cp_shape[2]>>
    /\ a.len_u = a.cp_shape[1] + a.degree_u + 1
    /\ a.len_v = a.cp_shape[2] + a.degree_v + 1

\* the same conditions on a surface
SurfaceWellFormed(srf) ==
    /\ srf.control_points.shape[3] = 3
    /\ srf.weights.shape = <<srf.control_points.shape[1], srf.control_points.shape[2]>>
    /\ Len(srf.knots_u) = srf.control_points.shape[1] + srf.degree_u + 1
    /\ Len(srf.knots_v) = srf.control_points.shape[2] + srf.degree_v + 1

\* C2: new yields a surface if and only if the inner dimension is 3, the
\* weight grid has the shape of the control grid and each knot vector has
\* count + degree + 1 knots; otherwise it panics and there is no surface;
\* every surface that exists satisfies the conditions.
C2_NewValidates ==
    s_new # "none" =>
        /\ s_new = "ok" <=> ShapeConditions(s_args)
        /\ s_new = "panicked" => surface = NoSurface
        /\ s_new = "ok" => SurfaceWellFormed(surface)

Corners == {F(0), F(1)}

PositiveWeights(srf) ==
    \A ij \in DOMAIN srf.weights.at : FGt(srf.weights.at[ij], F(0))

\* first degree + 1 knots 0, last degree + 1 knots 1
Clamped(knots, degree) ==
    /\ Len(knots) >= 2 * (degree + 1)
    /\ \A i \in 1..(degree + 1) : knots[i] = F(0) /\ knots[Len(knots) + 1 - i] = F(1)

\* first degree + 1 knots 0 and no more, last degree + 1 knots 1 and no more
ClampedOnce(knots, degree) ==
    /\ Clamped(knots, degree)
    /\ At(knots, degree + 1) # F(0)
    /\ At(knots, Len(knots) - degree - 2) # F(1)

\* the control point at the corner of the net that (u, v) in {0,1}^2 names
CornerPoint(srf, u, v) ==
    srf.control_points.at[<<IF u = F(0) THEN 0 ELSE srf.control_points.shape[1] - 1,
                            IF v = F(0) THEN 0 ELSE srf.control_points.shape[2] - 1>>]

CornerCall == call.op = "evaluate" /\ call.u \in Corners /\ call.v \in Corners

\* C7 as stated: on a surface with positive weights and both knot vectors
\* clamped on [0,1], evaluate at the four parameter corners returns the
\* four corner control points.
C7_AsStated ==
    /\ CornerCall /\ PositiveWeights(surface)
    /\ Clamped(surface.knots_u, surface.degree_u)
    /\ Clamped(surface.knots_v, surface.degree_v)
    => call.ret = Res(CornerPoint(surface, call.u, call.v))

\* C7 (amended): the same when the end knots 0 and 1 occur exactly
\* degree + 1 times each (the knot next to each clamped end differs).
C7_CornerInterpolation ==
    /\ CornerCall /\ PositiveWeights(surface)
    /\ ClampedOnce(surface.knots_u, surface.degree_u)
    /\ ClampedOnce(surface.knots_v, surface.degree_v)
    => call.ret = Res(CornerPoint(surface, call.u, call.v))

C7_Witness ==
    /\ CornerCall /\ call.u = F(1) /\ call.v = F(0)
    /\ ClampedOnce(surface.knots_u, surface.degree_u)
    /\ ClampedOnce(surface.knots_v, surface.degree_v)
    /\ surface.degree_u = 2 /\ surface.control_points.shape[2] = 3
    /\ surface.weights.at[<<2, 0>>] = F(1) /\ surface.weights.at[<<1, 0>>] = F(2)
    /\ call.ret = Res(<<F(3), F(2), F(3)>>)

\* every control point of the surface lies in the plane z = 0
Planar == \A p \in DOMAIN surface.control_points.at : surface.control_points.at[p][3] = F(0)

\* the parameterization is not degenerate at the parameters of the call:
\* du x dv is finite and not zero
NonDegenerate ==
    /\ \A c \in 1..3 : IsFinite(CallCross[c])
    /\ \E c \in 1..3 : ~IsZero(CallCross[c])

\* the flat unit square of test_normal_flat_surface, called at (0.5, 0.5)
FlatUnitSquare ==
    /\ surface.degree_u = 1 /\ surface.degree_v = 1
    /\ surface.control_points.shape = <<2, 2, 3>>
    /\ \A p \in ShapeIndex(2, 2) :
          /\ surface.control_points.at[p] = <<F(p[1]), F(p[2]), F(0)>>
          /\ surface.weights.at[p] = F(1)
    /\ surface.knots_u = <<F(0), F(0), F(1), F(1)>>
    /\ surface.knots_v = <<F(0), F(0), F(1), F(1)>>
    /\ call.u = <<1, 2>> /\ call.v = <<1, 2>>

\* both knot vectors are clamped on [0,1] with end knots of multiplicity
\* degree + 1 and no more
KnotsClampedOnce ==
    /\ ClampedOnce(surface.knots_u, surface.degree_u)
    /\ ClampedOnce(surface.knots_v, surface.degree_v)

CallSamples ==
    LET s == Samples(surface, CurvatureSamples(call.u, call.v, CurvatureEps),
                     overflow_checks)
    IN  [k \in 1..7 |-> s[k].val]

\* duv as the call computed it
CallMixedPartial == MixedPartial(CallSamples, CurvatureEps)

\* evaluate at (u + a * eps, v + b * eps)
Offset(a, b) ==
    evaluate(surface, FAdd(call.u, FMul(F(a), CurvatureEps)),
             FAdd(call.v, FMul(F(b), CurvatureEps)), overflow_checks).val

\* duv by the symmetric four-point stencil:
\* (P(u+e,v+e) - P(u+e,v-e) - P(u-e,v+e) + P(u-e,v-e)) / (4 e e)
SymmetricMixedPartial ==
    [c \in 1..3 |->
       FDiv(FAdd(FSub(FSub(Offset(1, 1)[c], Offset(1, -1)[c]), Offset(-1, 1)[c]),
                 Offset(-1, -1)[c]),
            FMul(F(4), FMul(CurvatureEps, CurvatureEps)))]

\* (u, v) of the call is at least eps inside (0,1) x (0,1): no sample is clamped
Interior ==
    /\ FLe(CurvatureEps, call.u) /\ FLe(call.u, FSub(F(1), CurvatureEps))
    /\ FLe(CurvatureEps, call.v) /\ FLe(call.v, FSub(F(1), CurvatureEps))

\* both stencils give numbers
StencilsFinite ==
    \A c \in 1..3 : IsFinite(CallMixedPartial[c]) /\ IsFinite(SymmetricMixedPartial[c])

\* C15: at every interior (u,v) the mixed partial duv that compute_curvature
\* uses is the symmetric four-point stencil
\* (P(u+e,v+e) - P(u+e,v-e) - P(u-e,v+e) + P(u-e,v-e)) / (4 e e).
C15_SymmetricStencil ==
    (CurvatureCall /\ Interior /\ KnotsClampedOnce /\ StencilsFinite) =>
        CallMixedPartial = SymmetricMixedPartial

\* the knot vector is non-decreasing
NonDecreasing(knots) ==
    \A i \in 1..(Len(knots) - 1) : FLe(knots[i], knots[i + 1])

\* t lies in the knot domain [knots[degree], knots[n]] of an axis
InKnotDomain(knots, degree, t) ==
    LET n == Len(knots) - degree - 1
    IN  /\ n >= degree + 1
        /\ FLe(At(knots, degree), t) /\ FLe(t, At(knots, n))

\* the first and the last span of the knot domain of an axis are not empty
AxisEndSpansNotEmpty(knots, degree) ==
    LET n == Len(knots) - degree - 1
    IN  /\ FLt(At(knots, degree), At(knots, degree + 1))
        /\ FLt(At(knots, n - 1), At(knots, n))

\* an evaluate call on a surface with positive weights and non-decreasing
\* knots, at (u, v) in the knot domain of both axes
EvaluateInDomain ==
    /\ call.op = "evaluate"
    /\ PositiveWeights(surface)
    /\ NonDecreasing(surface.knots_u) /\ NonDecreasing(surface.knots_v)
    /\ InKnotDomain(surface.knots_u, surface.degree_u, call.u)
    /\ InKnotDomain(surface.knots_v, surface.degree_v, call.v)

\* the weight sum of the evaluate call is a number > 0 and the point
\* returned is finite
CallWeightSumPositive ==
    LET S == weight_sum(surface, call.u, call.v, overflow_checks)
    IN  /\ S.ok /\ FGt(S.val, F(0))
        /\ call.ret.ok
        /\ \A k \in 1..3 : IsFinite(call.ret.val[k])

InUnit(t) == FLe(F(0), t) /\ FLe(t, F(1))

\* a compute_tangent call at (u, v) in [0,1] x [0,1]
TangentCall == call.op = "compute_tangent" /\ InUnit(call.u) /\ InUnit(call.v)

\* the four sample parameters the specification names, e the step
ClampedSamples(u, v, e) ==
    << <<IF FLt(F(1), FAdd(u, e)) THEN F(1) ELSE FAdd(u, e), v>>,
       <<IF FGt(F(0), FSub(u, e)) THEN F(0) ELSE FSub(u, e), v>>,
       <<u, IF FLt(F(1), FAdd(v, e)) THEN F(1) ELSE FAdd(v, e)>>,
       <<u, IF FGt(F(0), FSub(v, e)) THEN F(0) ELSE FSub(v, e)>> >>

\* (plus - minus) / 2e in each component
HalfDifference(plus, minus, e) ==
    [c \in 1..3 |-> FDiv(FSub(plus[c], minus[c]), FMul(F(2), e))]

\* the tangents that differences over 2e of the surface at pts give
TangentsFrom(pts, e) ==
    LET Differences(p) ==
            IF \E i \in 1..4 : ~p[i].ok THEN Panicked
            ELSE Res(<<HalfDifference(p[1].val, p[2].val, e),
                       HalfDifference(p[3].val, p[4].val, e)>>)
    IN  CHOOSE ret \in {Differences(got) : got \in
                {Samples(surface, pts, overflow_checks)}} : TRUE

\* C19: for (u, v) in [0,1] x [0,1] compute_tangent evaluates the surface
\* at (min(u+e,1), v), (max(u-e,0), v), (u, min(v+e,1)), (u, max(v-e,0)),
\* all of them in [0,1] x [0,1], and returns the two differences divided
\* by 2e, also where a sample was clamped.
C19_TangentClamped ==
    TangentCall =>
        /\ TangentSamples(call.u, call.v, TangentEps)
              = ClampedSamples(call.u, call.v, TangentEps)
        /\ \A i \in 1..4 :
              /\ InUnit(TangentSamples(call.u, call.v, TangentEps)[i][1])
              /\ InUnit(TangentSamples(call.u, call.v, TangentEps)[i][2])
        /\ call.ret = TangentsFrom(ClampedSamples(call.u, call.v, TangentEps), TangentEps)

\* a call at the corner (1, 0): u_plus and v_minus are clamped, and du is
\* the difference over the step e divided by 2e
C19_Witness ==
    /\ TangentCall /\ call.u = F(1) /\ call.v = F(0)
    /\ ClampedSamples(call.u, call.v, TangentEps)[1] = <<F(1), F(0)>>
    /\ ClampedSamples(call.u, call.v, TangentEps)[2] = <<FSub(F(1), TangentEps), F(0)>>
    /\ ClampedSamples(call.u, call.v, TangentEps)[4] = <<F(1), F(0)>>
    /\ call.ret.ok
    /\ \A c \in 1..3 : IsFinite(call.ret.val[1][c]) /\ IsFinite(call.ret.val[2][c])
    /\ \E c \in 1..3 : ~IsZero(call.ret.val[1][c])

\* ------------------------------------------------------ basis: claims --
\* n = knots.len() - degree - 1 as a number (no machine width)
N == Len(b_knots) - b_degree - 1

\* the knot vector is long enough for its degree: n >= degree + 1
LongEnough == N >= b_degree + 1

\* find_span has returned normally
SpanReturned == b_pc \in {"span", "basis", "done"}

\* t lies in the knot domain [knots[degree], knots[n]]
ValidT == FLe(At(b_knots, b_degree), b_t) /\ FLe(b_t, At(b_knots, N))

\* the first and the last span of the knot domain are not empty
EndSpansNotEmpty ==
    /\ FLt(At(b_knots, b_degree), At(b_knots, b_degree + 1))
    /\ FLt(At(b_knots, N - 1), At(b_knots, N))

\* C3: for a non-decreasing knot vector with n >= degree + 1 and any t
\* (also outside the domain, infinite or NaN), find_span terminates (every
\* iteration of its loop narrows high - low, and the loop is left once
\* high - low <= 1) and its result lies in degree..n-1.
C3_FindSpanInRange ==
    /\ [](LongEnough /\ SpanReturned => b_degree <= b_span /\ b_span <= N - 1)
    /\ [](LongEnough /\ b_pc = "search" => b_degree <= b_low /\ b_low < b_high /\ b_high <= N)
    /\ [][LongEnough /\ b_pc = "search" /\ b_pc' = "search"
              => b_high' - b_low' < b_high - b_low]_vars
    /\ [][LongEnough /\ b_pc = "search" /\ ~(b_high - b_low > 1) => b_pc' = "span"]_vars

C3_Witness ==
    /\ LongEnough /\ b_pc = "span"
    /\ b_high = b_low + 1 /\ b_span = b_low /\ b_span > b_degree

\* C4 as stated: for knots[degree] < t < knots[n] the span contains t; for
\* t <= knots[degree] the result is degree; for t >= knots[n] it is n-1.
C4_AsStated ==
    LongEnough /\ SpanReturned =>
        /\ FLt(At(b_knots, b_degree), b_t) /\ FLt(b_t, At(b_knots, N)) =>
              FLe(At(b_knots, b_span), b_t) /\ FLt(b_t, At(b_knots, b_span + 1))
        /\ FLe(b_t, At(b_knots, b_degree)) => b_span = b_degree
        /\ FGe(b_t, At(b_knots, N)) => b_span = N - 1

\* the spans the source's test expects on TestKnots, degree 3
TestSpan(t) == IF FLt(t, <<1, 2>>) THEN 3 ELSE 4

\* C4 (amended): for knots[degree] < t < knots[n] the span contains t; for
\* t >= knots[n] the result is n-1; for t <= knots[degree] it is degree
\* unless t >= knots[n] as well (the upper clamp is tested first).
C4_FindSpanContainsT ==
    LongEnough /\ SpanReturned =>
        /\ FLt(At(b_knots, b_degree), b_t) /\ FLt(b_t, At(b_knots, N)) =>
              FLe(At(b_knots, b_span), b_t) /\ FLt(b_t, At(b_knots, b_span + 1))
        /\ FLe(b_t, At(b_knots, b_degree)) /\ ~FGe(b_t, At(b_knots, N)) => b_span = b_degree
        /\ FGe(b_t, At(b_knots, N)) => b_span = N - 1
        /\ b_knots = TestKnots /\ b_degree = TestDegree /\ FLe(F(0), b_t) /\ FLe(b_t, F(1)) =>
              b_span = TestSpan(b_t)

C4_Witness ==
    /\ b_knots = TestKnots /\ b_degree = TestDegree /\ b_t = <<1, 2>>
    /\ b_pc = "span" /\ b_span = 4 /\ b_low = 4 /\ b_high = 5

\* C5 as stated: for every non-decreasing knot vector long enough for its
\* degree and every valid t the outputs of evaluate_all, and the values of
\* basis_funs, sum to exactly 1.
C5_AsStated ==
    LongEnough /\ ValidT =>
        /\ b_pc = "done" => FSum(b_output) = F(1)
        /\ b_pc \in {"basis", "done"} => FSum(b_basis) = F(1)

\* C5 (amended): the same, for knot vectors whose first and last domain
\* spans are not empty (knots[degree] < knots[degree+1], knots[n-1] < knots[n]).
C5_PartitionOfUnity ==
    LongEnough /\ ValidT /\ EndSpansNotEmpty =>
        /\ b_pc = "done" => FSum(b_output) = F(1)
        /\ b_pc \in {"basis", "done"} => FSum(b_basis) = F(1)

C5_Witness ==
    /\ LongEnough /\ ValidT /\ EndSpansNotEmpty /\ b_pc = "done"
    /\ b_degree = 2
    /\ \E i \in 1..Len(b_output) : FLt(F(0), b_output[i]) /\ FLt(b_output[i], <<1, 2>>)

\* C6 as stated: for every non-decreasing knot vector long enough for its
\* degree and every valid t every output of evaluate_all is >= 0.
C6_AsStated ==
    LongEnough /\ ValidT /\ b_pc = "done" =>
        \A i \in 1..Len(b_output) : FGe(b_output[i], F(0))

\* C6 (amended): the same, for knot vectors whose first and last domain
\* spans are not empty.
C6_NonNegative ==
    LongEnough /\ ValidT /\ EndSpansNotEmpty /\ b_pc = "done" =>
        \A i \in 1..Len(b_output) : FGe(b_output[i], F(0))

C6_Witness ==
    /\ b_knots = TestKnots /\ b_degree = TestDegree /\ b_t = <<1, 4>> /\ b_pc = "done"
    /\ Cardinality({i \in 1..Len(b_output) : FGt(b_output[i], F(0))}) = 4

\* the indices span - degree + i, i in 0..degree, of the copy loop
Window == {b_span - b_degree + i : i \in 0..b_degree}

\* every entry of output outside the window is 0
ZeroOutsideWindow ==
    \A idx \in 0..(Len(b_output) - 1) : idx \notin Window => At(b_output, idx) = F(0)

\* what evaluate_all returns in a buffer of zeros: a function of (t, knots,
\* degree) alone
FromZeros == evaluate_all(b_t, b_knots, b_degree, Zeros(N), overflow_checks)

\* the call panics on a buffer whose length is not n
LengthAsserted ==
    [][b_pc = "call" /\ Len(b_output) # N => b_pc' = "panicked"]_vars

\* C17 as stated: evaluate_all panics unless output.len() = n; after it
\* returns every entry of output outside [span-degree, span] is 0 and the
\* degree + 1 entries inside are the basis_funs values in order, whatever
\* output held before; a second call with the same arguments gives the same.
C17_AsStated ==
    /\ LengthAsserted
    /\ [](b_pc = "done" =>
            /\ Len(b_output) = N
            /\ ZeroOutsideWindow
            /\ \A i \in 0..b_degree :
                  /\ b_span - b_degree + i \in 0..(N - 1)
                  /\ At(b_output, b_span - b_degree + i) = At(b_basis, i)
            /\ FromZeros = Res(b_output))

\* C17 (amended): the same, where the entries of the window written are
\* those whose index is below n: all degree + 1 of them when
\* n >= degree + 1, and with too short a knot vector only those that exist.
C17_OutputDetermined ==
    /\ LengthAsserted
    /\ [](b_pc = "done" =>
            /\ Len(b_output) = N
            /\ ZeroOutsideWindow
            /\ \A i \in 0..b_degree :
                  /\ b_span - b_degree + i \in 0..(N - 1) =>
                        At(b_output, b_span - b_degree + i) = At(b_basis, i)
                  /\ LongEnough => b_span - b_degree + i \in 0..(N - 1)
            /\ FromZeros = Res(b_output))

C17_Witness ==
    /\ b_pc = "done" /\ b_calls = MaxCalls
    /\ b_knots = TestKnots /\ b_degree = TestDegree /\ b_t = <<3, 4>>
    /\ b_span = 4 /\ At(b_output, 0) = F(0)
    /\ \A idx \in 1..4 : FGt(At(b_output, idx), F(0))

\* an evaluate_derivatives call on a knot vector long enough for its
\* degree, with at least min(deriv_order, degree) + 1 output rows
DerivativesCall ==
    /\ derivs.op = "evaluate_derivatives"
    /\ Len(derivs.output) >= Min(derivs.deriv_order, derivs.degree) + 1

\* C18: for every degree, every derivative order and every r and k of the
\* loops, the indices of evaluate_derivatives into ndu and the coefficient
\* rows stay in range and no index computation (rk + j with a negative
\* rk included) overflows, so a call with at least min(order, degree) + 1
\* output rows never panics.
C18_DerivativesIndexSafe ==
    DerivativesCall => derivs.pc # "panicked"

\* ------------------------------------------------- C boundary: claims --
CreateCall == ffi.op = "nurbs_create"

\* the shape passed to nurbs_create is malformed
Malformed ==
    \/ ffi.knots_u_len # ffi.u_res + ffi.degree_u + 1
    \/ ffi.knots_v_len # ffi.v_res + ffi.degree_v + 1
    \/ ffi.u_res < 0 \/ ffi.v_res < 0 \/ ffi.degree_u < 0 \/ ffi.degree_v < 0

\* C10: nurbs_create returns a null handle, and neither crashes nor aborts,
\* whenever the shape it is given is malformed: a knot length that is not
\* count + degree + 1 on its axis, or a negative count or degree.
C10_CreateRejectsMalformed ==
    (CreateCall /\ Malformed) => (ffi.kind = "return" /\ ffi.ret = Null)

\* the boundary operations that take a handle
HandleOps ==
    {"nurbs_evaluate", "nurbs_evaluate_batch", "nurbs_evaluate_grid", "nurbs_normal",
     "nurbs_curvature", "nurbs_dimensions", "nurbs_free"}

\* the call just made on the boundary passed a null handle or, where the
\* operation has one, a null output pointer
NullCallMade ==
    /\ ffi' # ffi
    /\ ffi'.op \in HandleOps
    /\ ffi'.handle = Null \/ (ffi'.op # "nurbs_free" /\ ffi'.output.null)

\* C11: a boundary operation called with a null handle, or with a null output
\* pointer, returns without writing to an output buffer, without evaluating
\* the surface and without releasing a box; nurbs_free(null) releases nothing.
C11_NullIsNoOp ==
    [][NullCallMade =>
          /\ ffi'.kind = "return"
          /\ ffi'.mem = ffi'.output.mem
          /\ ~ffi'.evaluated
          /\ heap' = heap]_vars

C11_Witness ==
    /\ ffi.op = "nurbs_evaluate_grid" /\ ffi.handle = Null /\ ~ffi.output.null
    /\ LiveHandles # {}
    /\ ffi.kind = "return"
    /\ \A k \in 1..Len(ffi.mem) : ffi.mem[k] = Garbage

====
